---- MODULE Spec2Model ----
(***************************************************************************)
(* Model of mantle's metal install harness (platform/metal.go):            *)
(*   - Install.PXE / Install.runPXE / Install.setup / installerRun.destroy *)
(*   - Install.InstallViaISOEmbed                                          *)
(*   - switchBootOrderSignal and its two watcher goroutines                *)
(*   - InstalledMachine.Destroy                                            *)
(* One install run is modelled from the call to the return of the handle,  *)
(* followed by the asynchronous life of the two watchers, the consumer of  *)
(* BootStartedErrorChannel and the caller's Destroy calls.                 *)
(*                                                                         *)
(* The QEMU process, the guest and the virtio pipe are the environment.    *)
(* os.RemoveAll on the run's own temporary directory is taken to succeed.  *)
(*                                                                         *)
(* Model of mantle's QEMU cluster (platform/machine/qemu/cluster.go):      *)
(*   - Cluster.NewMachineWithOptions / NewMachineWithQemuOptions, called   *)
(*     concurrently, and the supervising goroutine each machine gets       *)
(*   - Cluster.Destroy                                                     *)
(*   - the configuration of the boot disk of a machine                     *)
(*                                                                         *)
(* Model of the rendering of the kernel arguments and of the installer's   *)
(* configuration by Install.PXE and Install.InstallViaISOEmbed, with the   *)
(* slices of kernel arguments kept as Go keeps them: a backing array, a    *)
(* length and a capacity.                                                  *)
(*                                                                         *)
(* Model of util.RunCmdTimeout: the command, the goroutine that waits for  *)
(* it, the timer and the select.                                           *)
(*                                                                         *)
(* Spec runs the install harness, ClusterSpec the cluster, DiskSpec the    *)
(* configuration of the boot disk, RenderSpec the rendering and CmdSpec    *)
(* RunCmdTimeout; each leaves the variables of the others at their initial *)
(* values.                                                                 *)
(***************************************************************************)
EXTENDS Integers, Sequences, FiniteSets, TLC

(***************************************************************************)
(* Bounds of the model.                                                    *)
(***************************************************************************)
\* how many times the guest writes to the virtio port in one run
MaxWrites == 1
\* how many times the caller invokes InstalledMachine.Destroy
MaxDestroy == 2

(***************************************************************************)
(* Program constants.                                                      *)
(***************************************************************************)
\* bootStartedSignal = "boot-started-OK", as a sequence of characters
bootStartedSignal ==
    <<"b","o","o","t","-","s","t","a","r","t","e","d","-","O","K">>

\* the name os.MkdirTemp returns; "" is Go's empty string
TmpName == "/var/tmp/mantle-XXXX"

\* the error values sent on the result channel
NilErr == "nil"
ErrQemuExited == "QEMU unexpectedly exited while waiting for boot-started-OK"
ErrEOF == "Got EOF from boot started channel, boot-started-OK expected"
ErrRead == "reading from boot started channel"
ErrSwitch == "switching boot order failed"

\* the number of attempts NewMachineWithQemuOptions gives util.Retry
RetryAttempts == 6
NoResult == "none"

(***************************************************************************)
(* Byte strings: bufio.Reader.ReadString and strings.TrimSpace.            *)
(***************************************************************************)
NL == "\n"
WhiteSpace == {" ", "\t", "\n", "\r"}

\* what the guest may write to /dev/virtio-ports/bootstarted in one write
GuestMessages ==
    { bootStartedSignal \o <<NL>>,
      <<" ">> \o bootStartedSignal \o <<" ", "\r", NL>>,
      bootStartedSignal,
      <<"b","o","o","t","-","s","t","a","r","t","e","d","-","o","k", NL>>,
      <<NL>> }

HasDelim(s) == \E i \in 1..Len(s) : s[i] = NL

\* index of the first delimiter of s (s holds one)
FirstDelim(s) == CHOOSE i \in 1..Len(s) : s[i] = NL /\ \A j \in 1..(i-1) : s[j] # NL

\* r.ReadString('\n') on a reader holding s: the bytes up to and including
\* the first delimiter
ReadLine(s) == SubSeq(s, 1, FirstDelim(s))

RECURSIVE TrimLeft(_)
TrimLeft(s) == IF s # <<>> /\ Head(s) \in WhiteSpace THEN TrimLeft(Tail(s)) ELSE s

RECURSIVE TrimRight(_)
TrimRight(s) ==
    IF s # <<>> /\ s[Len(s)] \in WhiteSpace
    THEN TrimRight(SubSeq(s, 1, Len(s) - 1))
    ELSE s

\* strings.TrimSpace
TrimSpace(s) == TrimRight(TrimLeft(s))

VARIABLES
    req,            \* the call in progress: method and its arguments
    pc,             \* position of the installing function
    cleanupTempdir, \* the local cleanup flag of setup / InstallViaISOEmbed
    tTempdir,       \* installerRun.tempdir
    boottype,       \* installerRun.pxe.boottype
    dirExists,      \* the temporary directory exists on disk
    builderCloses,  \* calls of QemuBuilder.Close
    ret,            \* what the installing function returned
    mach,           \* the InstalledMachine handle
    chanMade,       \* BootStartedErrorChannel was created
    proc,           \* the QEMU process
    buf,            \* bytes in the virtio pipe, not yet read
    strm,           \* state of the pipe's write side
    writes,         \* guest writes so far
    pcP,            \* position of the process watcher
    pcS,            \* position of the signal watcher
    line,           \* the trimmed line the signal watcher read
    rawLine,        \* l, what ReadString returned: a line, or the data before the error
    slept,          \* the signal watcher's time.Sleep has elapsed
    sends,          \* per watcher: send statements reached
    sendq,          \* the watchers blocked in a send, in order of arrival
    switchCalls,    \* calls of QemuInstance.SwitchBootOrder
    switchRes,      \* what SwitchBootOrder returned
    consumer,       \* the reader of BootStartedErrorChannel
    result,         \* what the consumer received
    resultFrom,     \* which watcher's send the consumer received
    instDestroys,   \* calls of QemuInstance.Destroy
    nDestroy,       \* calls of InstalledMachine.Destroy
    removeAlls,     \* os.RemoveAll calls made by InstalledMachine.Destroy
    destroyErr,     \* what the last InstalledMachine.Destroy returned
    instSet,        \* the installing function has modified the Install object
    precondErr,     \* the precondition error the installing function returned
    cpc,            \* per NewMachine call: its position
    opts,           \* per NewMachine call: the options it was given
    cret,           \* per NewMachine call: what it returned
    effects,           \* per NewMachine call: what it created on disk
    qinst,          \* per NewMachine call: the QEMU process it launched
    tries,          \* per NewMachine call: attempts util.Retry has made so far
    mu,             \* Cluster.mu: "" when free, else the call holding it
    tearingDown,    \* Cluster.tearingDown
    machs,          \* the machines registered in the BaseCluster
    sup,            \* per machine: its supervising goroutine
    pcD,            \* position of Cluster.Destroy
    toRelease,      \* the machines BaseCluster.Destroy still has to release
    earlyExit,      \* history: the machines whose process ended by itself with
                    \* an error before Cluster.Destroy was called
    dpc,            \* position of the configuration of the boot disk
    dopts,          \* the per-machine options the boot disk is configured from
    fopts,          \* the flight's options (qc.flight.opts)
    primaryDisk,    \* the local primaryDisk of NewMachineWithQemuOptions
    dret,           \* how the configuration of the boot disk ended
    env,            \* the host: its architecture, and COSA_TESTISO_DEBUG
    inst,           \* the Install object: its flags and inst.kargs
    heap,           \* the backing arrays of the slices of kernel arguments
    kpc,            \* position of the install call that renders
    krun,           \* the arguments and locals of that call
    kout,           \* what that call rendered and set up
    kret,           \* what that call returned
    runs,           \* the inputs and the renderings of the calls that returned
    tpc,            \* position of RunCmdTimeout
    timeout,        \* the duration RunCmdTimeout was given
    now,            \* the time since RunCmdTimeout was called
    deadline,       \* when the timer of time.After expires
    timer,          \* the timer: not created, armed, or its value is in its channel
    cproc,          \* the command's process
    inTime,         \* the command exited before the timeout had elapsed
    wpc,            \* position of the goroutine that waits for the command
    werr,           \* what c.Wait() returned to that goroutine
    errc,           \* the contents of the channel errc
    tret            \* what RunCmdTimeout returned

vars == << req, pc, cleanupTempdir, tTempdir, boottype, dirExists,
           builderCloses, ret, mach, chanMade, proc, buf, strm, writes,
           pcP, pcS, line, rawLine, slept, sends, sendq, switchCalls, switchRes,
           consumer, result, resultFrom, instDestroys, nDestroy, removeAlls, destroyErr,
           instSet, precondErr,
           cpc, opts, cret, effects, qinst, tries, mu, tearingDown, machs, sup, pcD,
           toRelease, earlyExit,
           dpc, dopts, fopts, primaryDisk, dret,
           env, inst, heap, kpc, krun, kout, kret, runs,
           tpc, timeout, now, deadline, timer, cproc, inTime, wpc, werr, errc, tret >>

installVars == << req, pc, cleanupTempdir, tTempdir, boottype, builderCloses, ret >>
syncVars == << chanMade, buf, strm, writes, pcP, pcS, line, rawLine, slept, sends, sendq,
               switchCalls, switchRes, consumer, result, resultFrom >>
destroyVars == << instDestroys, nDestroy, removeAlls, destroyErr >>
precondVars == << instSet, precondErr >>
metalVars == << installVars, dirExists, mach, proc, syncVars, destroyVars, precondVars >>
clusterVars == << cpc, opts, cret, effects, qinst, tries, mu, tearingDown, machs, sup, pcD,
                  toRelease, earlyExit >>
diskVars == << dpc, dopts, fopts, primaryDisk, dret >>

\* what each part of the model leaves alone
renderVars == << env, inst, heap, kpc, krun, kout, kret, runs >>
cmdVars == << tpc, timeout, now, deadline, timer, cproc, inTime, wpc, werr, errc, tret >>
notMetal == << clusterVars, diskVars, renderVars, cmdVars >>
notCluster == << metalVars, diskVars, renderVars, cmdVars >>
notDisk == << metalVars, clusterVars, renderVars, cmdVars >>
notRender == << metalVars, clusterVars, diskVars, cmdVars >>
notCmd == << metalVars, clusterVars, diskVars, renderVars >>

NoReq == [method |-> "none", offline |-> FALSE, minimal |-> FALSE, keyfiles |-> FALSE,
          art |-> <<>>]
NoLine == <<"?">>

\* the zero value of InstalledMachine
ZeroMachine == [QemuInst |-> FALSE, Tempdir |-> ""]

NotStarted == [state |-> "none", waitErr |-> FALSE, signaled |-> FALSE]

\* the NewMachine calls that run concurrently on the cluster, and the machines
\* they create
Machines == {"m1", "m2"}

\* the options nobody has given
NoOptions == [InstanceType |-> "", PrimaryDisk |-> "", SkipStartMachine |-> FALSE]

\* the zero value of platform.Disk, as far as the boot disk goes; strings are
\* sequences of characters
ZeroDisk == [Size |-> <<>>, Channel |-> <<>>, SectorSize |-> 0, LogicalSectorSize |-> 0,
             MultiPathDisk |-> FALSE]

\* no boot disk is being configured
NoDiskOptions == [PrimaryDisk |-> <<>>, Nvme |-> FALSE, MultiPathDisk |-> FALSE,
                  MinDiskSize |-> 0]
NoFlightOptions == [Nvme |-> FALSE, Native4k |-> FALSE, Disk512e |-> FALSE,
                    MultiPathDisk |-> FALSE, DiskSize |-> <<>>]

\* a kernel argument is the sequence of the pieces it is formatted from
\* var baseKargs = []string{...}
baseKargs ==
    << << "rd.neednet=1" >>, << "ip=dhcp" >>, << "ignition.firstboot" >>,
       << "ignition.platform.id=metal" >> >>

\* a slice: its backing array (0 for none), its length and its capacity
NilSlice == [arr |-> 0, len |-> 0, cap |-> 0]

\* the slice baseKargs denotes: the first array of the heap, filled
BaseSlice == [arr |-> 1, len |-> Len(baseKargs), cap |-> Len(baseKargs)]

\* the zero values of installerConfig and of pxeSetup
ZeroInstallerConfig ==
    [ImageURL |-> <<>>, IgnitionFile |-> <<>>, Insecure |-> FALSE, AppendKargs |-> <<>>,
     CopyNetwork |-> FALSE, DestDevice |-> <<>>, Console |-> <<>>]
ZeroPxeSetup ==
    [tftpipaddr |-> "", boottype |-> "", networkdevice |-> "", bootindex |-> "",
     bootfile |-> "", pxeimagepath |-> ""]

\* no host and no Install object yet
NoEnv == [arch |-> "", debug |-> FALSE]
NoInstall ==
    [Firmware |-> "", Insecure |-> FALSE, MultiPathDisk |-> FALSE,
     PxeAppendRootfs |-> FALSE, NmKeyfiles |-> FALSE, kargs |-> NilSlice]

\* no call in progress, and nothing rendered
NoRun ==
    [method |-> "none", kargs |-> NilSlice, offline |-> FALSE, minimal |-> FALSE,
     port |-> 0, installerConfig |-> ZeroInstallerConfig, pxe |-> ZeroPxeSetup,
     baseurl |-> <<>>, serializedTargetConfig |-> <<>>, srcisopath |-> ""]
NoOutput ==
    [cmdline |-> <<>>, isoKargs |-> <<>>, liveFiles |-> <<>>, outFiles |-> {},
     served |-> FALSE, UsermodeNetworking |-> FALSE, tools |-> <<>>, attached |-> "",
     tftp |-> {}, bootfile |-> ""]

\* a supervising goroutine that was not started
NoSupervisor == [pc |-> "none", spawned |-> 0, waitErr |-> FALSE, saw |-> "unread",
                 logs |-> 0]

Init ==
    /\ req = NoReq
    /\ pc = "idle"
    /\ cleanupTempdir = FALSE
    /\ tTempdir = ""
    /\ boottype = ""
    /\ dirExists = FALSE
    /\ builderCloses = 0
    /\ ret = "none"
    /\ mach = ZeroMachine
    /\ chanMade = FALSE
    /\ proc = NotStarted
    /\ buf = <<>>
    /\ strm = "open"
    /\ writes = 0
    /\ pcP = "none"
    /\ pcS = "none"
    /\ line = NoLine
    /\ rawLine = NoLine
    /\ slept = FALSE
    /\ sends = [w \in {"proc", "sig"} |-> 0]
    /\ sendq = <<>>
    /\ switchCalls = 0
    /\ switchRes = "none"
    /\ consumer = "idle"
    /\ result = NoResult
    /\ resultFrom = "none"
    /\ instDestroys = 0
    /\ nDestroy = 0
    /\ removeAlls = 0
    /\ destroyErr = NoResult
    /\ instSet = FALSE
    /\ precondErr = <<>>
    /\ cpc = [c \in Machines |-> "idle"]
    /\ opts = [c \in Machines |-> NoOptions]
    /\ cret = [c \in Machines |-> "none"]
    /\ effects = [c \in Machines |-> {}]
    /\ qinst = [c \in Machines |-> "none"]
    /\ tries = [c \in Machines |-> 0]
    /\ mu = ""
    /\ tearingDown = FALSE
    /\ machs = {}
    /\ sup = [c \in Machines |-> NoSupervisor]
    /\ pcD = 0
    /\ toRelease = {}
    /\ earlyExit = {}
    /\ dpc = "idle"
    /\ dopts = NoDiskOptions
    /\ fopts = NoFlightOptions
    /\ primaryDisk = ZeroDisk
    /\ dret = "none"
    /\ env = NoEnv
    /\ inst = NoInstall
    /\ heap = << baseKargs >>
    /\ kpc = "none"
    /\ krun = NoRun
    /\ kout = NoOutput
    /\ kret = "none"
    /\ runs = <<>>
    /\ tpc = "idle"
    /\ timeout = 0
    /\ now = 0
    /\ deadline = 0
    /\ timer = "none"
    /\ cproc = "none"
    /\ inTime = FALSE
    /\ wpc = "none"
    /\ werr = "none"
    /\ errc = <<>>
    /\ tret = "none"

(***************************************************************************)
(* Install.checkArtifactsExist                                             *)
(***************************************************************************)
\* what the build knows of an artifact: listed in the metadata and present
\* on disk; not listed; listed but absent from disk; listed, and os.Stat
\* fails for another reason than absence
ArtifactStates == {"ok", "nometa", "nofile", "staterr"}

\* the artifacts Install.PXE and Install.InstallViaISOEmbed ask for (the
\* second one of the latter is "metal4k" when inst.Native4k is set)
PxeArtifacts == << "live-kernel", "live-rootfs" >>
IsoArtifacts == << "live-iso", "metal" >>

ErrMissingArtifact(name) == << "Missing artifact", name >>
ErrMissingFile(name) == << "Missing local file for artifact", name >>
ErrKeyfileOffline == << "Cannot use --add-nm-keyfile with offline mode" >>

\* one round of the loop: GetArtifact fails for an artifact the metadata
\* does not list; an os.Stat error counts only when it is os.IsNotExist
ArtifactError(name, state) ==
    CASE state = "nometa" -> ErrMissingArtifact(name)
      [] state = "nofile" -> ErrMissingFile(name)
      [] OTHER -> <<>>

\* a check that looks at the first artifact only
checkFirstArtifactOnly(names, states) == ArtifactError(names[1], states[1])

\* the error of the first artifact in the list that has one; <<>> is nil
checkArtifactsExist(names, states) ==
    LET bad == {i \in 1..Len(names) : ArtifactError(names[i], states[i]) # <<>>}
    IN  IF bad = {} THEN <<>>
        ELSE LET i == CHOOSE j \in bad : \A k \in bad : j <= k
             IN  ArtifactError(names[i], states[i])

(***************************************************************************)
(* Control flow of the two installing functions.                           *)
(***************************************************************************)
\* the statements of Install.PXE -> runPXE -> setup, in program order
PxeOrder ==
    << "pxe_check", "pxe_yaml", "setup_check", "setup_mkdirtemp", "setup_tftpdir",
       "setup_config", "setup_live", "setup_symlinks", "setup_append",
       "setup_metal", "setup_arch", "setup_listen", "setup_return",
       "run_virtio", "run_complete", "run_exec", "run_transfer",
       "run_attach", "run_return" >>

\* the statements of Install.InstallViaISOEmbed, in program order
IsoOrder ==
    << "iso_check", "iso_minoff", "iso_offkey", "iso_mkdirtemp",
       "iso_target", "iso_target_out", "iso_cp", "iso_chmod", "iso_metal",
       "iso_listen", "iso_minimal", "iso_render", "iso_pointer_out",
       "iso_keyfiles", "iso_kargs", "iso_yaml", "iso_virtio",
       "iso_live_out", "iso_addiso", "iso_exec", "iso_transfer",
       "iso_attach", "iso_return" >>

IndexOf(order, p) == CHOOSE i \in 1..Len(order) : order[i] = p
After(order, p) == order[IndexOf(order, p) + 1]

\* fallible statements of setup that run with the directory created
SetupFallible ==
    { "setup_tftpdir", "setup_config", "setup_live", "setup_symlinks",
      "setup_append", "setup_metal", "setup_listen" }

\* fallible statements of runPXE that run under its deferred destroy
RunFallible == { "run_virtio", "run_complete", "run_exec" }

\* fallible statements of InstallViaISOEmbed that run with the directory created
IsoFallible ==
    { "iso_target", "iso_target_out", "iso_cp", "iso_chmod", "iso_metal",
      "iso_listen", "iso_minimal", "iso_render", "iso_pointer_out",
      "iso_keyfiles", "iso_kargs", "iso_yaml", "iso_virtio", "iso_live_out",
      "iso_addiso", "iso_exec" }

\* whether a conditional statement of InstallViaISOEmbed runs for request r
IsoApplies(p, r) ==
    CASE p \in {"iso_listen", "iso_render", "iso_pointer_out"} -> ~r.offline
      [] p = "iso_minimal" -> ~r.offline /\ r.minimal
      [] p = "iso_keyfiles" -> r.keyfiles
      [] OTHER -> TRUE

Archs == {"x86_64", "aarch64", "ppc64le", "s390x", "riscv64"}
Firmwares == {"bios", "uefi"}

\* a resolution that boots every architecture with pxelinux
BootTypeAlwaysPxe(arch, fw) == IF arch \in Archs \ {"riscv64"} THEN "pxe" ELSE ""

\* pxe.boottype as the architecture switch of setup sets it; "" when the
\* architecture is not supported
BootTypeOf(arch, fw) ==
    CASE arch = "x86_64" -> IF fw = "uefi" THEN "grub" ELSE "pxe"
      [] arch = "aarch64" -> "grub"
      [] arch = "ppc64le" -> "grub"
      [] arch = "s390x" -> "pxe"
      [] OTHER -> ""

(***************************************************************************)
(* Deferred cleanups.                                                      *)
(***************************************************************************)
\* the deferred function of setup and of InstallViaISOEmbed: whether the
\* directory exists afterwards
CleanupDefer(flag, exists) == IF flag THEN FALSE ELSE exists

\* destroy without its removal of the directory
destroyNeverRemoves(td) == FALSE

\* installerRun.destroy removes the directory iff t.tempdir is not empty
destroyRemoves(td) == td # ""

\* the transfer without the clearing of t.tempdir
TempdirKept(td) == td

\* t.tempdir after runPXE's transfer of ownership
TempdirAfterTransfer(td) == ""

\* the cleanup flag after the transfer of ownership
FlagAfterTransfer(flag) == FALSE

Running == [state |-> "running", waitErr |-> FALSE, signaled |-> FALSE]

\* an installing function returns: its locals (the cleanup flag, the
\* installerRun) and its arguments cease to exist
Return(how) ==
    /\ ret' = how
    /\ pc' = "done"
    /\ req' = NoReq
    /\ cleanupTempdir' = FALSE
    /\ tTempdir' = ""
    /\ boottype' = ""

\* the installing function goes on to its next statement
Advance(order) ==
    /\ pc' = After(order, pc)
    /\ UNCHANGED << req, ret >>

\* the installing function goes on after its check of the artifacts, which
\* nothing looks at again
AdvanceChecked(order) ==
    /\ pc' = After(order, pc)
    /\ req' = [req EXCEPT !.art = <<>>]
    /\ UNCHANGED ret

(***************************************************************************)
(* Install.PXE                                                             *)
(***************************************************************************)
PXE_Call ==
    /\ pc = "idle"
    /\ ret = "none"
    /\ \E off \in BOOLEAN, art \in [1..Len(PxeArtifacts) -> ArtifactStates] :
         req' = [method |-> "pxe", offline |-> off, minimal |-> FALSE, keyfiles |-> FALSE,
                 art |-> art]
    /\ pc' = "pxe_check"
    /\ UNCHANGED << cleanupTempdir, tTempdir, boottype, dirExists, builderCloses,
                    ret, mach, proc >>
    /\ UNCHANGED syncVars
    /\ UNCHANGED destroyVars
    /\ UNCHANGED notMetal
    /\ UNCHANGED precondVars

\* the fallible statements that precede os.MkdirTemp: checkArtifactsExist
\* and yaml.Marshal in PXE, checkArtifactsExist in setup; after yaml.Marshal
\* PXE adds the installer config to liveIgnition (except on s390x) and
\* assigns inst.kargs, inst.ignition and inst.liveIgnition
PXE_BeforeTempdir ==
    /\ pc \in {"pxe_check", "pxe_yaml", "setup_check"}
    /\ \E ok \in BOOLEAN :
         LET err == IF pc = "pxe_check"
                    THEN checkArtifactsExist(PxeArtifacts, req.art)
                    ELSE IF ok THEN <<>> ELSE <<"error">>
         IN  IF err = <<>>
             THEN /\ IF pc = "pxe_check" THEN AdvanceChecked(PxeOrder)
                     ELSE Advance(PxeOrder)
                  /\ instSet' = (instSet \/ pc = "pxe_yaml")
                  /\ UNCHANGED << cleanupTempdir, tTempdir, boottype, precondErr >>
             ELSE /\ Return("err")
                  /\ precondErr' = IF pc = "pxe_check" THEN err ELSE precondErr
                  /\ UNCHANGED instSet
    /\ UNCHANGED << dirExists, builderCloses, mach, proc >>
    /\ UNCHANGED syncVars
    /\ UNCHANGED destroyVars
    /\ UNCHANGED notMetal

\* os.MkdirTemp and the arming of the cleanup flag
setup_MkdirTemp ==
    /\ pc = "setup_mkdirtemp"
    /\ \E ok \in BOOLEAN :
         IF ok
         THEN /\ dirExists' = TRUE
              /\ cleanupTempdir' = TRUE
              /\ Advance(PxeOrder)
              /\ UNCHANGED << tTempdir, boottype >>
         ELSE /\ Return("err")
              /\ UNCHANGED dirExists
    /\ UNCHANGED << builderCloses, mach, proc >>
    /\ UNCHANGED syncVars
    /\ UNCHANGED destroyVars
    /\ UNCHANGED notMetal
    /\ UNCHANGED precondVars

\* a fallible statement of setup; on failure the deferred cleanup runs
setup_Step ==
    /\ pc \in SetupFallible
    /\ \E ok \in BOOLEAN :
         IF ok
         THEN /\ Advance(PxeOrder)
              /\ UNCHANGED << dirExists, cleanupTempdir, tTempdir, boottype >>
         ELSE /\ dirExists' = CleanupDefer(cleanupTempdir, dirExists)
              /\ Return("err")
    /\ UNCHANGED << builderCloses, mach, proc >>
    /\ UNCHANGED syncVars
    /\ UNCHANGED destroyVars
    /\ UNCHANGED notMetal
    /\ UNCHANGED precondVars

\* the architecture switch of setup
setup_Arch ==
    /\ pc = "setup_arch"
    /\ \E arch \in Archs, fw \in Firmwares :
         IF BootTypeOf(arch, fw) # ""
         THEN /\ boottype' = BootTypeOf(arch, fw)
              /\ Advance(PxeOrder)
              /\ UNCHANGED << dirExists, cleanupTempdir, tTempdir >>
         ELSE /\ dirExists' = CleanupDefer(cleanupTempdir, dirExists)
              /\ Return("err")
    /\ UNCHANGED << builderCloses, mach, proc >>
    /\ UNCHANGED syncVars
    /\ UNCHANGED destroyVars
    /\ UNCHANGED notMetal
    /\ UNCHANGED precondVars

\* setup succeeds: the flag is cleared and the directory is handed to the
\* installerRun it returns; the deferred cleanup runs with the flag cleared
setup_Return ==
    /\ pc = "setup_return"
    /\ cleanupTempdir' = FlagAfterTransfer(cleanupTempdir)
    /\ tTempdir' = TmpName
    /\ dirExists' = CleanupDefer(cleanupTempdir', dirExists)
    /\ Advance(PxeOrder)
    /\ UNCHANGED << boottype, builderCloses, mach, proc >>
    /\ UNCHANGED syncVars
    /\ UNCHANGED destroyVars
    /\ UNCHANGED notMetal
    /\ UNCHANGED precondVars

\* the deferred t.destroy() of runPXE: builder.Close() and the removal of
\* the directory t still owns
destroy ==
    /\ builderCloses' = builderCloses + 1
    /\ dirExists' = IF destroyRemoves(tTempdir) THEN FALSE ELSE dirExists

\* a fallible statement of runPXE; on failure (or on the panic of
\* completePxeSetup) the deferred t.destroy() runs
runPXE_Step ==
    /\ pc \in RunFallible
    /\ \E ok \in BOOLEAN :
         IF pc = "run_complete" /\ boottype \notin {"pxe", "grub"}
         THEN /\ destroy
              /\ Return("panic")
              /\ UNCHANGED proc
         ELSE IF ok
         THEN /\ Advance(PxeOrder)
              /\ proc' = IF pc = "run_exec" THEN Running ELSE proc
              /\ UNCHANGED << dirExists, builderCloses, cleanupTempdir, tTempdir,
                              boottype >>
         ELSE /\ destroy
              /\ Return("err")
              /\ UNCHANGED proc
    /\ UNCHANGED mach
    /\ UNCHANGED syncVars
    /\ UNCHANGED destroyVars
    /\ UNCHANGED notMetal
    /\ UNCHANGED precondVars

\* tempdir := t.tempdir; t.tempdir = ""; instmachine := InstalledMachine{...}
runPXE_Transfer ==
    /\ pc = "run_transfer"
    /\ mach' = [QemuInst |-> TRUE, Tempdir |-> tTempdir]
    /\ tTempdir' = TempdirAfterTransfer(tTempdir)
    /\ Advance(PxeOrder)
    /\ UNCHANGED << cleanupTempdir, boottype, dirExists, builderCloses, proc >>
    /\ UNCHANGED syncVars
    /\ UNCHANGED destroyVars
    /\ UNCHANGED notMetal
    /\ UNCHANGED precondVars

(***************************************************************************)
(* switchBootOrderSignal: makes the channel and starts the two watchers.   *)
(***************************************************************************)
\* the handle is filled in without a channel
ChanLeftNil(made) == made

\* *booterrchan = make(chan error)
MakeChan(made) == TRUE

switchBootOrderSignal ==
    /\ chanMade' = MakeChan(chanMade)
    /\ pcP' = "wait"
    /\ pcS' = "read"
    /\ UNCHANGED << buf, strm, writes, line, rawLine, slept, sends, sendq, switchCalls, switchRes,
                    consumer, result, resultFrom >>

runPXE_Attach ==
    /\ pc = "run_attach"
    /\ switchBootOrderSignal
    /\ Advance(PxeOrder)
    /\ UNCHANGED << cleanupTempdir, tTempdir, boottype, dirExists,
                    builderCloses, mach, proc >>
    /\ UNCHANGED destroyVars
    /\ UNCHANGED notMetal
    /\ UNCHANGED precondVars

\* return &instmachine, then the deferred t.destroy()
runPXE_Return ==
    /\ pc = "run_return"
    /\ destroy
    /\ Return("mach")
    /\ UNCHANGED << mach, proc >>
    /\ UNCHANGED syncVars
    /\ UNCHANGED destroyVars
    /\ UNCHANGED notMetal
    /\ UNCHANGED precondVars

(***************************************************************************)
(* Install.InstallViaISOEmbed                                              *)
(***************************************************************************)
ISO_Call ==
    /\ pc = "idle"
    /\ ret = "none"
    /\ \E off \in BOOLEAN, min \in BOOLEAN, kf \in BOOLEAN,
          art \in [1..Len(IsoArtifacts) -> ArtifactStates] :
         req' = [method |-> "iso", offline |-> off, minimal |-> min, keyfiles |-> kf,
                 art |-> art]
    /\ pc' = "iso_check"
    /\ UNCHANGED << cleanupTempdir, tTempdir, boottype, dirExists, builderCloses,
                    ret, mach, proc >>
    /\ UNCHANGED syncVars
    /\ UNCHANGED destroyVars
    /\ UNCHANGED notMetal
    /\ UNCHANGED precondVars

\* a check of the install modes that never panics
NeverPanics(minimal, offline) == FALSE

\* if minimal && offline { panic("Can't run minimal install offline") }
CantRunMinimalOffline(minimal, offline) == minimal /\ offline

\* a check that lets keyfiles through in offline mode
KeyfilesAlwaysAllowed(offline, keyfiles) == FALSE

\* if offline && len(inst.NmKeyfiles) > 0 { return nil, fmt.Errorf(...) }
KeyfilesWithOffline(offline, keyfiles) == offline /\ keyfiles

\* every failed precondition is returned as an error
PrecondAlwaysErr(p) == "err"

\* how a failed precondition ends the call: the check of the modes panics,
\* the two others return an error
PrecondOutcome(p) == IF p = "iso_minoff" THEN "panic" ELSE "err"

\* the precondition checks: artifacts, minimal && offline, offline && keyfiles;
\* after them InstallViaISOEmbed assigns inst.kargs, inst.ignition and
\* inst.liveIgnition
ISO_Preconditions ==
    /\ pc \in {"iso_check", "iso_minoff", "iso_offkey"}
    /\ LET err == CASE pc = "iso_check" -> checkArtifactsExist(IsoArtifacts, req.art)
                    [] pc = "iso_minoff" ->
                         IF CantRunMinimalOffline(req.minimal, req.offline)
                         THEN <<"panic">> ELSE <<>>
                    [] pc = "iso_offkey" ->
                         IF KeyfilesWithOffline(req.offline, req.keyfiles)
                         THEN ErrKeyfileOffline ELSE <<>>
       IN  IF err # <<>>
           THEN /\ Return(PrecondOutcome(pc))
                /\ precondErr' = IF pc = "iso_minoff" THEN precondErr ELSE err
                /\ UNCHANGED instSet
           ELSE /\ IF pc = "iso_check" THEN AdvanceChecked(IsoOrder)
                   ELSE Advance(IsoOrder)
                /\ instSet' = (instSet \/ pc = "iso_offkey")
                /\ UNCHANGED << cleanupTempdir, tTempdir, boottype, precondErr >>
    /\ UNCHANGED << dirExists, builderCloses, mach, proc >>
    /\ UNCHANGED syncVars
    /\ UNCHANGED destroyVars
    /\ UNCHANGED notMetal

\* os.MkdirTemp and the arming of the cleanup flag
ISO_MkdirTemp ==
    /\ pc = "iso_mkdirtemp"
    /\ \E ok \in BOOLEAN :
         IF ok
         THEN /\ dirExists' = TRUE
              /\ cleanupTempdir' = TRUE
              /\ Advance(IsoOrder)
              /\ UNCHANGED << tTempdir, boottype >>
         ELSE /\ Return("err")
              /\ UNCHANGED dirExists
    /\ UNCHANGED << builderCloses, mach, proc >>
    /\ UNCHANGED syncVars
    /\ UNCHANGED destroyVars
    /\ UNCHANGED notMetal
    /\ UNCHANGED precondVars

\* a fallible statement of InstallViaISOEmbed; a statement whose condition
\* is false is skipped; on failure the deferred cleanup runs
ISO_Step ==
    /\ pc \in IsoFallible
    /\ \E ok \in BOOLEAN :
         IF ok \/ ~IsoApplies(pc, req)
         THEN /\ Advance(IsoOrder)
              /\ proc' = IF pc = "iso_exec" THEN Running ELSE proc
              /\ UNCHANGED << dirExists, cleanupTempdir, tTempdir, boottype >>
         ELSE /\ dirExists' = CleanupDefer(cleanupTempdir, dirExists)
              /\ Return("err")
              /\ UNCHANGED proc
    /\ UNCHANGED << builderCloses, mach >>
    /\ UNCHANGED syncVars
    /\ UNCHANGED destroyVars
    /\ UNCHANGED notMetal
    /\ UNCHANGED precondVars

\* cleanupTempdir = false; instmachine := InstalledMachine{...}
ISO_Transfer ==
    /\ pc = "iso_transfer"
    /\ cleanupTempdir' = FlagAfterTransfer(cleanupTempdir)
    /\ mach' = [QemuInst |-> TRUE, Tempdir |-> TmpName]
    /\ Advance(IsoOrder)
    /\ UNCHANGED << tTempdir, boottype, dirExists, builderCloses, proc >>
    /\ UNCHANGED syncVars
    /\ UNCHANGED destroyVars
    /\ UNCHANGED notMetal
    /\ UNCHANGED precondVars

ISO_Attach ==
    /\ pc = "iso_attach"
    /\ switchBootOrderSignal
    /\ Advance(IsoOrder)
    /\ UNCHANGED << cleanupTempdir, tTempdir, boottype, dirExists,
                    builderCloses, mach, proc >>
    /\ UNCHANGED destroyVars
    /\ UNCHANGED notMetal
    /\ UNCHANGED precondVars

\* return &instmachine, then the deferred cleanup
ISO_Return ==
    /\ pc = "iso_return"
    /\ dirExists' = CleanupDefer(cleanupTempdir, dirExists)
    /\ Return("mach")
    /\ UNCHANGED << builderCloses, mach, proc >>
    /\ UNCHANGED syncVars
    /\ UNCHANGED destroyVars
    /\ UNCHANGED notMetal
    /\ UNCHANGED precondVars

(***************************************************************************)
(* The environment: the QEMU process, the guest, the virtio pipe.          *)
(***************************************************************************)
Ended(we, sg) == [state |-> "ended", waitErr |-> we, signaled |-> sg]

\* the process ends by itself or by an external signal; Wait() may or may
\* not carry the process data of a signalled process
QemuExits ==
    /\ proc.state = "running"
    /\ \E we \in BOOLEAN, sg \in BOOLEAN : proc' = Ended(we, sg)
    /\ UNCHANGED << dirExists, mach >>
    /\ UNCHANGED installVars
    /\ UNCHANGED syncVars
    /\ UNCHANGED destroyVars
    /\ UNCHANGED notMetal
    /\ UNCHANGED precondVars

\* the boot-started unit (or anything else in the guest) writes to the port;
\* buf holds the bytes a ReadString can still return, and the watcher calls
\* ReadString only once
GuestWrites ==
    /\ proc.state = "running"
    /\ strm = "open"
    /\ writes < MaxWrites
    /\ \E m \in GuestMessages :
         buf' = IF pcS \in {"none", "read"} THEN buf \o m ELSE buf
    /\ writes' = writes + 1
    /\ UNCHANGED << dirExists, mach, proc, chanMade, strm, pcP, pcS, line, rawLine, slept,
                    sends, sendq, switchCalls, switchRes, consumer, result, resultFrom >>
    /\ UNCHANGED installVars
    /\ UNCHANGED destroyVars
    /\ UNCHANGED notMetal
    /\ UNCHANGED precondVars

\* the write side of the pipe is closed
StreamCloses ==
    /\ proc.state # "none"
    /\ strm = "open"
    /\ strm' = "closed"
    /\ UNCHANGED << dirExists, mach, proc, chanMade, buf, writes, pcP, pcS, line, rawLine,
                    slept, sends, sendq, switchCalls, switchRes, consumer, result, resultFrom >>
    /\ UNCHANGED installVars
    /\ UNCHANGED destroyVars
    /\ UNCHANGED notMetal
    /\ UNCHANGED precondVars

\* reading the pipe fails with an error other than io.EOF
StreamFails ==
    /\ proc.state # "none"
    /\ strm = "open"
    /\ strm' = "error"
    /\ UNCHANGED << dirExists, mach, proc, chanMade, buf, writes, pcP, pcS, line, rawLine,
                    slept, sends, sendq, switchCalls, switchRes, consumer, result, resultFrom >>
    /\ UNCHANGED installVars
    /\ UNCHANGED destroyVars
    /\ UNCHANGED notMetal
    /\ UNCHANGED precondVars

(***************************************************************************)
(* The process watcher (first goroutine of switchBootOrderSignal).         *)
(***************************************************************************)
\* the watcher without its check of qinst.Signaled()
ProcWatcherReportsWaitErrOnly(waitErr, signaled) == waitErr

\* err != nil after "if err == nil && qinst.Signaled() { err = ... }"
ProcWatcherReports(waitErr, signaled) == waitErr \/ signaled

\* qinst.Wait() returns; the watcher reaches its send or ends
ProcWatcher_Wait ==
    /\ pcP = "wait"
    /\ proc.state = "ended"
    /\ IF ProcWatcherReports(proc.waitErr, proc.signaled)
       THEN /\ pcP' = "send"
            /\ sends' = [sends EXCEPT !["proc"] = @ + 1]
            /\ sendq' = Append(sendq, "proc")
       ELSE /\ pcP' = "done"
            /\ UNCHANGED << sends, sendq >>
    /\ UNCHANGED << chanMade, buf, strm, writes, pcS, line, rawLine, slept, switchCalls, switchRes,
                    consumer, result, resultFrom >>
    /\ UNCHANGED << dirExists, mach, proc >>
    /\ UNCHANGED installVars
    /\ UNCHANGED destroyVars
    /\ UNCHANGED notMetal
    /\ UNCHANGED precondVars

(***************************************************************************)
(* The signal watcher (second goroutine of switchBootOrderSignal).         *)
(***************************************************************************)
SigSendStates == {"send_eof", "send_rderr", "send_swerr", "send_ok"}

\* the value each send statement of the signal watcher sends
SigVal(p) ==
    CASE p = "send_eof" -> ErrEOF
      [] p = "send_rderr" -> ErrRead
      [] p = "send_swerr" -> ErrSwitch
      [] p = "send_ok" -> NilErr

\* io.EOF makes the watcher return without a send
SigAfterReadErrorSilentEOF(isEOF) == IF isEOF THEN "done" ELSE "send_rderr"

\* io.EOF is sent without the grace delay
SigAfterReadErrorNoSleep(isEOF) == IF isEOF THEN "send_eof" ELSE "send_rderr"

\* where ReadString's error leads: io.EOF sleeps first, any other error is
\* sent at once
SigAfterReadError(isEOF) == IF isEOF THEN "sleep" ELSE "send_rderr"

\* the comparison made without regard to case, as strings.EqualFold does
SwitchInvokedFold(l) ==
    LET lower(c) == CASE c = "O" -> "o" [] c = "K" -> "k" [] OTHER -> c
    IN  [i \in DOMAIN l |-> lower(l[i])]
            = [i \in DOMAIN bootStartedSignal |-> lower(bootStartedSignal[i])]

\* SwitchBootOrder is called whatever the line
SwitchInvokedAlways(l) == TRUE

\* whether the line makes the watcher call SwitchBootOrder
SwitchInvoked(l) == l = bootStartedSignal

\* a line that is not the marker is reported as a failure
SigCheckMismatchFails(l, ok) ==
    IF l # bootStartedSignal THEN "send_rderr"
    ELSE IF ~ok THEN "send_swerr" ELSE "send_ok"

\* the send statement reached after a successful read of line l, given the
\* outcome of SwitchBootOrder when it is called
SigCheck(l, ok) ==
    IF SwitchInvoked(l) /\ ~ok THEN "send_swerr" ELSE "send_ok"

\* the sends of the error branches fall through to the final send
SigAfterSendNoReturn(p) == IF p = "send_ok" THEN "done" ELSE "send_ok"

\* every send of the signal watcher is followed by a return
SigAfterSend(p) == "done"

\* the signal watcher reaches position p: a send statement is counted
EnterSend(p) ==
    IF p \in SigSendStates THEN [sends EXCEPT !["sig"] = @ + 1] ELSE sends

\* a blocked sender waits behind the senders that arrived before it
Enqueue(q, p) == IF p \in SigSendStates THEN Append(q, "sig") ELSE q

\* r.ReadString('\n') returns: a complete line, or the data read so far with
\* the stream's error
SigWatcher_ReadString ==
    /\ pcS = "read"
    /\ HasDelim(buf) \/ strm # "open"
    /\ IF HasDelim(buf)
       THEN /\ rawLine' = ReadLine(buf)
            /\ line' = TrimSpace(rawLine')
            /\ pcS' = "check"
       ELSE /\ pcS' = SigAfterReadError(strm = "closed")
            /\ rawLine' = buf
            /\ UNCHANGED line
    /\ buf' = <<>>
    /\ sends' = EnterSend(pcS')
    /\ sendq' = Enqueue(sendq, pcS')
    /\ UNCHANGED << chanMade, strm, writes, pcP, slept, switchCalls, switchRes, consumer,
                    result, resultFrom >>
    /\ UNCHANGED << dirExists, mach, proc >>
    /\ UNCHANGED installVars
    /\ UNCHANGED destroyVars
    /\ UNCHANGED notMetal
    /\ UNCHANGED precondVars

\* time.Sleep(1 * time.Second) elapses
SigWatcher_Sleep ==
    /\ pcS = "sleep"
    /\ slept' = TRUE
    /\ pcS' = "send_eof"
    /\ sends' = EnterSend(pcS')
    /\ sendq' = Enqueue(sendq, pcS')
    /\ UNCHANGED << chanMade, buf, strm, writes, pcP, line, rawLine, switchCalls, switchRes, consumer,
                    result, resultFrom >>
    /\ UNCHANGED << dirExists, mach, proc >>
    /\ UNCHANGED installVars
    /\ UNCHANGED destroyVars
    /\ UNCHANGED notMetal
    /\ UNCHANGED precondVars

\* the comparison with the marker and the call of SwitchBootOrder
SigWatcher_Check ==
    /\ pcS = "check"
    /\ \E ok \in BOOLEAN :
         /\ pcS' = SigCheck(line, ok)
         /\ switchCalls' = IF SwitchInvoked(line) THEN switchCalls + 1 ELSE switchCalls
         /\ switchRes' = IF SwitchInvoked(line)
                          THEN (IF ok THEN "ok" ELSE "fail")
                          ELSE switchRes
    /\ sends' = EnterSend(pcS')
    /\ sendq' = Enqueue(sendq, pcS')
    /\ UNCHANGED << chanMade, buf, strm, writes, pcP, line, rawLine, slept, consumer,
                    result, resultFrom >>
    /\ UNCHANGED << dirExists, mach, proc >>
    /\ UNCHANGED installVars
    /\ UNCHANGED destroyVars
    /\ UNCHANGED notMetal
    /\ UNCHANGED precondVars

(***************************************************************************)
(* The consumer of BootStartedErrorChannel (an unbuffered channel).        *)
(***************************************************************************)
\* the caller starts to receive from the channel of the returned handle
ConsumerWaits ==
    /\ ret = "mach"
    /\ chanMade
    /\ consumer = "idle"
    /\ consumer' = "waiting"
    /\ UNCHANGED << chanMade, buf, strm, writes, pcP, pcS, line, rawLine, slept, sends, sendq,
                    switchCalls, switchRes, result, resultFrom >>
    /\ UNCHANGED << dirExists, mach, proc >>
    /\ UNCHANGED installVars
    /\ UNCHANGED destroyVars
    /\ UNCHANGED notMetal
    /\ UNCHANGED precondVars

\* the rendezvous of the waiting consumer with a watcher blocked in its send
Receive ==
    /\ consumer = "waiting"
    /\ sendq # <<>>
    /\ \/ /\ Head(sendq) = "proc"
          /\ result' = ErrQemuExited
          /\ resultFrom' = "proc"
          /\ pcP' = "done"
          /\ sendq' = Tail(sendq)
          /\ UNCHANGED << pcS, sends >>
       \/ /\ Head(sendq) = "sig"
          /\ result' = SigVal(pcS)
          /\ resultFrom' = "sig"
          /\ pcS' = SigAfterSend(pcS)
          /\ sends' = EnterSend(pcS')
          /\ sendq' = Enqueue(Tail(sendq), pcS')
          /\ UNCHANGED pcP
    /\ consumer' = "got"
    /\ UNCHANGED << chanMade, buf, strm, writes, line, rawLine, slept, switchCalls, switchRes >>
    /\ UNCHANGED << dirExists, mach, proc >>
    /\ UNCHANGED installVars
    /\ UNCHANGED destroyVars
    /\ UNCHANGED notMetal
    /\ UNCHANGED precondVars

(***************************************************************************)
(* InstalledMachine.Destroy                                                *)
(***************************************************************************)
\* QemuInstance.Destroy stops the process if it still runs
KillProcess(p, we) == IF p.state = "running" THEN Ended(we, TRUE) ELSE p

\* Destroy without the reset of inst.QemuInst
InstKept(q) == q

\* inst.QemuInst after the first branch of Destroy (inst.QemuInst = nil)
InstAfterDestroy(q) == FALSE

\* the caller destroys the handle it holds after the install returned: the
\* returned one, or a zero-valued InstalledMachine when the install failed
Destroy ==
    /\ pc = "done"
    /\ nDestroy < MaxDestroy
    /\ nDestroy' = nDestroy + 1
    /\ IF mach.QemuInst
       THEN /\ instDestroys' = instDestroys + 1
            /\ \E we \in BOOLEAN : proc' = KillProcess(proc, we)
       ELSE /\ UNCHANGED << instDestroys, proc >>
    /\ mach' = [mach EXCEPT !.QemuInst = IF @ THEN InstAfterDestroy(@) ELSE @]
    /\ IF mach.Tempdir # ""
       THEN /\ removeAlls' = removeAlls + 1
            /\ dirExists' = FALSE
       ELSE /\ UNCHANGED << removeAlls, dirExists >>
    /\ destroyErr' = NilErr
    /\ UNCHANGED installVars
    /\ UNCHANGED syncVars
    /\ UNCHANGED notMetal
    /\ UNCHANGED precondVars

(***************************************************************************)
(* qemu.Cluster (platform/machine/qemu/cluster.go): NewMachineWithOptions, *)
(* NewMachineWithQemuOptions, the supervising goroutine and Destroy.       *)
(* Several calls run concurrently on one Cluster.     The builder, the    *)
(* QEMU processes, util.Retry, StartMachine, machine.Destroy and           *)
(* BaseCluster are the environment.                                        *)
(***************************************************************************)
\* the statements of NewMachineWithOptions -> NewMachineWithQemuOptions that
\* can return or that act on shared state, in program order
NmOrder ==
    << "nm_insttype", "nm_mkdir", "nm_lock", "nm_render", "nm_journal",
       "nm_secexec", "nm_config", "nm_builder", "nm_parsedisk", "nm_disks",
       "nm_exec", "nm_poll", "nm_start", "nm_addmach", "nm_spawn", "nm_return" >>

\* statements whose only modelled outcome is to go on or to return an error:
\* SetSecureExecution; SetArchitecture and strconv.ParseInt; AddCexDevice,
\* AddBootDisk and AddDisksFromSpecs
NmFallible == { "nm_secexec", "nm_builder", "nm_disks" }

\* the statements that run after `defer builder.Close()` was reached
NmDeferred ==
    { "nm_builder", "nm_parsedisk", "nm_disks", "nm_exec", "nm_poll", "nm_start",
      "nm_addmach", "nm_spawn", "nm_return" }

\* the call c goes on to its next statement
NmAdvance(c) ==
    /\ cpc' = [cpc EXCEPT ![c] = After(NmOrder, cpc[c])]
    /\ UNCHANGED opts

\* the effects of call c after it returned from statement p
EffectsAtReturn(c, p) ==
    IF p \in NmDeferred THEN effects[c] \cup {"close"} ELSE effects[c]

\* the call c returns `how`; its arguments cease to exist
NmReturn(c, how) ==
    /\ cret' = [cret EXCEPT ![c] = how]
    /\ cpc' = [cpc EXCEPT ![c] = "done"]
    /\ opts' = [opts EXCEPT ![c] = NoOptions]

\* the primary disk specifications a caller may pass: none (the default), and
\* one that platform.ParseDisk refuses because its size lacks the "G"; a
\* specification that parses leaves the call on the same path as none
DiskSpecs == {"", "20M"}

\* a caller invokes NewMachineWithOptions with its options
NewMachine(c) ==
    /\ cpc[c] = "idle"
    /\ cpc' = [cpc EXCEPT ![c] = "nm_insttype"]
    /\ \E it \in {"", "m5.large"}, pd \in DiskSpecs, skip \in BOOLEAN :
         opts' = [opts EXCEPT ![c] = [InstanceType |-> it, PrimaryDisk |-> pd,
                                      SkipStartMachine |-> skip]]
    /\ UNCHANGED << cret, effects, qinst, tries, mu, tearingDown, machs, sup, pcD,
                    toRelease >>
    /\ UNCHANGED earlyExit
    /\ UNCHANGED notCluster

\* NewMachineWithOptions: a non-empty options.InstanceType is refused
NM_InstanceType(c) ==
    /\ cpc[c] = "nm_insttype"
    /\ IF opts[c].InstanceType # ""
       THEN NmReturn(c, "err_insttype")
       ELSE NmAdvance(c) /\ UNCHANGED cret
    /\ UNCHANGED << effects, qinst, tries, mu, tearingDown, machs, sup, pcD, toRelease >>
    /\ UNCHANGED earlyExit
    /\ UNCHANGED notCluster

\* os.Mkdir(dir, 0777)
NM_Mkdir(c) ==
    /\ cpc[c] = "nm_mkdir"
    /\ \E ok \in BOOLEAN :
         IF ok
         THEN /\ effects' = [effects EXCEPT ![c] = @ \cup {"dir"}]
              /\ NmAdvance(c)
              /\ UNCHANGED cret
         ELSE /\ NmReturn(c, "err")
              /\ UNCHANGED effects
    /\ UNCHANGED << qinst, tries, mu, tearingDown, machs, sup, pcD, toRelease >>
    /\ UNCHANGED earlyExit
    /\ UNCHANGED notCluster

\* a lock that never makes anybody wait
LockAlwaysFree(m) == TRUE

\* sync.Mutex: Lock returns only when nobody holds the mutex
LockFree(m) == m = ""

\* qc.mu.Lock()
NM_Lock(c) ==
    /\ cpc[c] = "nm_lock"
    /\ LockFree(mu)
    /\ mu' = c
    /\ NmAdvance(c)
    /\ UNCHANGED << cret, effects, qinst, tries, tearingDown, machs, sup, pcD, toRelease >>
    /\ UNCHANGED earlyExit
    /\ UNCHANGED notCluster

\* the unlock on the error path left out
MuKeptOnError(c, ok) == IF ok THEN "" ELSE c

\* qc.mu after RenderUserData returned: unlocked on both paths
MuAfterRender(c, ok) == ""

\* conf, err := qc.RenderUserData(...) and the qc.mu.Unlock() that follows
NM_Render(c) ==
    /\ cpc[c] = "nm_render"
    /\ \E ok \in BOOLEAN :
         /\ mu' = MuAfterRender(c, ok)
         /\ IF ok
            THEN NmAdvance(c) /\ UNCHANGED cret
            ELSE NmReturn(c, "err")
    /\ UNCHANGED << effects, qinst, tries, tearingDown, machs, sup, pcD, toRelease >>
    /\ UNCHANGED earlyExit
    /\ UNCHANGED notCluster

\* platform.NewJournal(dir)
NM_Journal(c) ==
    /\ cpc[c] = "nm_journal"
    /\ \E ok \in BOOLEAN :
         IF ok
         THEN /\ effects' = [effects EXCEPT ![c] = @ \cup {"journal"}]
              /\ NmAdvance(c)
              /\ UNCHANGED cret
         ELSE /\ NmReturn(c, "err")
              /\ UNCHANGED effects
    /\ UNCHANGED << qinst, tries, mu, tearingDown, machs, sup, pcD, toRelease >>
    /\ UNCHANGED earlyExit
    /\ UNCHANGED notCluster

\* the rendered config is written when it is an Ignition config, nothing is
\* written when it is empty, any other kind is refused
NM_Config(c) ==
    /\ cpc[c] = "nm_config"
    /\ \E kind \in {"ignition", "empty", "other"}, ok \in BOOLEAN :
         IF kind = "ignition" /\ ok
         THEN /\ effects' = [effects EXCEPT ![c] = @ \cup {"config"}]
              /\ NmAdvance(c)
              /\ UNCHANGED cret
         ELSE IF kind = "empty"
         THEN /\ NmAdvance(c)
              /\ UNCHANGED << cret, effects >>
         ELSE /\ NmReturn(c, "err")
              /\ UNCHANGED effects
    /\ UNCHANGED << qinst, tries, mu, tearingDown, machs, sup, pcD, toRelease >>
    /\ UNCHANGED earlyExit
    /\ UNCHANGED notCluster

\* a fallible statement with no other effect
NM_Fallible(c) ==
    /\ cpc[c] \in NmFallible
    /\ \E ok \in BOOLEAN :
         IF ok
         THEN /\ NmAdvance(c)
              /\ UNCHANGED << cret, effects >>
         ELSE /\ NmReturn(c, "err")
              /\ effects' = [effects EXCEPT ![c] = EffectsAtReturn(c, cpc[c])]
    /\ UNCHANGED << qinst, tries, mu, tearingDown, machs, sup, pcD, toRelease >>
    /\ UNCHANGED earlyExit
    /\ UNCHANGED notCluster

\* whether platform.ParseDisk returns an error for the specification
ParseDiskFails(spec) == spec = "20M"

\* options.PrimaryDisk is parsed when it is not empty
NM_ParseDisk(c) ==
    /\ cpc[c] = "nm_parsedisk"
    /\ IF opts[c].PrimaryDisk # "" /\ ParseDiskFails(opts[c].PrimaryDisk)
       THEN /\ NmReturn(c, "err_disk")
            /\ effects' = [effects EXCEPT ![c] = EffectsAtReturn(c, cpc[c])]
       ELSE /\ NmAdvance(c)
            /\ UNCHANGED << cret, effects >>
    /\ UNCHANGED << qinst, tries, mu, tearingDown, machs, sup, pcD, toRelease >>
    /\ UNCHANGED earlyExit
    /\ UNCHANGED notCluster

\* inst, err := builder.Exec()
NM_Exec(c) ==
    /\ cpc[c] = "nm_exec"
    /\ \E ok \in BOOLEAN :
         IF ok
         THEN /\ qinst' = [qinst EXCEPT ![c] = "running"]
              /\ NmAdvance(c)
              /\ UNCHANGED << cret, effects >>
         ELSE /\ NmReturn(c, "err")
              /\ effects' = [effects EXCEPT ![c] = EffectsAtReturn(c, cpc[c])]
              /\ UNCHANGED qinst
    /\ UNCHANGED << tries, mu, tearingDown, machs, sup, pcD, toRelease >>
    /\ UNCHANGED earlyExit
    /\ UNCHANGED notCluster

\* a retry loop that makes one attempt too many
RetryOneMore(n, ok) == ~ok /\ n < RetryAttempts + 1

\* util.Retry: after the n-th attempt, whether another one follows
RetryGoesOn(n, ok) == ~ok /\ n < RetryAttempts

\* one attempt of util.Retry(6, 5*time.Second, ...): qm.ip, err =
\* inst.SSHAddress(); the attempt counter ceases to exist when Retry returns
NM_Poll(c) ==
    /\ cpc[c] = "nm_poll"
    /\ \E ok \in BOOLEAN :
         IF RetryGoesOn(tries[c] + 1, ok)
         THEN /\ tries' = [tries EXCEPT ![c] = @ + 1]
              /\ UNCHANGED << cpc, opts, cret, effects >>
         ELSE /\ tries' = [tries EXCEPT ![c] = 0]
              /\ IF ok
                 THEN /\ effects' = [effects EXCEPT ![c] = @ \cup {"ip"}]
                      /\ NmAdvance(c)
                      /\ UNCHANGED cret
                 ELSE /\ NmReturn(c, "err_ssh")
                      /\ effects' = [effects EXCEPT ![c] = EffectsAtReturn(c, cpc[c])]
    /\ UNCHANGED << qinst, mu, tearingDown, machs, sup, pcD, toRelease >>
    /\ UNCHANGED earlyExit
    /\ UNCHANGED notCluster

\* machine.Destroy ends the process of the machine if it still runs
Killed(q, by) == IF q = "running" THEN by ELSE q

\* the failed handshake without the release of the machine
StartFailureLeaks(eff) == eff

\* qm.Destroy() after a failed StartMachine
StartFailureDestroys(eff) == eff \cup {"destroy"}

\* if !options.SkipStartMachine { ... }
HandshakeRuns(skip) == ~skip

\* platform.StartMachine(qm, qm.journal) unless options.SkipStartMachine
NM_Start(c) ==
    /\ cpc[c] = "nm_start"
    /\ \E ok \in BOOLEAN :
         IF ~HandshakeRuns(opts[c].SkipStartMachine)
         THEN /\ NmAdvance(c)
              /\ UNCHANGED << cret, effects, qinst >>
         ELSE IF ok
         THEN /\ effects' = [effects EXCEPT ![c] = @ \cup {"start"}]
              /\ NmAdvance(c)
              /\ UNCHANGED << cret, qinst >>
         ELSE /\ effects' = [effects EXCEPT ![c] =
                    StartFailureDestroys(EffectsAtReturn(c, cpc[c]) \cup {"start"})]
              /\ qinst' = [qinst EXCEPT ![c] =
                    IF "destroy" \in effects'[c] THEN Killed(@, "destroyed") ELSE @]
              /\ NmReturn(c, "err_start")
    /\ UNCHANGED << tries, mu, tearingDown, machs, sup, pcD, toRelease >>
    /\ UNCHANGED earlyExit
    /\ UNCHANGED notCluster

\* qc.AddMach(qm)
NM_AddMach(c) ==
    /\ cpc[c] = "nm_addmach"
    /\ machs' = machs \cup {c}
    /\ effects' = [effects EXCEPT ![c] = @ \cup {"registered"}]
    /\ NmAdvance(c)
    /\ UNCHANGED << cret, qinst, tries, mu, tearingDown, sup, pcD, toRelease >>
    /\ UNCHANGED earlyExit
    /\ UNCHANGED notCluster

\* go func() { err := inst.Wait(); ... }()
NM_Spawn(c) ==
    /\ cpc[c] = "nm_spawn"
    /\ sup' = [sup EXCEPT ![c].pc = "wait", ![c].spawned = @ + 1]
    /\ NmAdvance(c)
    /\ UNCHANGED << cret, effects, qinst, tries, mu, tearingDown, machs, pcD, toRelease >>
    /\ UNCHANGED earlyExit
    /\ UNCHANGED notCluster

\* return qm, nil, and the deferred builder.Close()
NM_Return(c) ==
    /\ cpc[c] = "nm_return"
    /\ NmReturn(c, "mach")
    /\ effects' = [effects EXCEPT ![c] = EffectsAtReturn(c, cpc[c])]
    /\ UNCHANGED << qinst, tries, mu, tearingDown, machs, sup, pcD, toRelease >>
    /\ UNCHANGED earlyExit
    /\ UNCHANGED notCluster

\* the QEMU process of a machine ends by itself, cleanly or not
ProcessExits(c) ==
    /\ qinst[c] = "running"
    /\ \E how \in {"exited", "failed"} :
         /\ qinst' = [qinst EXCEPT ![c] = how]
         /\ earlyExit' = IF how = "failed" /\ pcD = 0 THEN earlyExit \cup {c}
                          ELSE earlyExit
    /\ UNCHANGED << cpc, opts, cret, effects, tries, mu, tearingDown, machs, sup, pcD,
                    toRelease >>
    /\ UNCHANGED notCluster

\* what inst.Wait() returns for an ended process: an error unless it exited
\* cleanly
WaitError(q) == q \in {"failed", "destroyed", "released"}

\* the supervising goroutine: err := inst.Wait(); with a nil error the
\* condition is settled without reading qc.tearingDown
Sup_Wait(c) ==
    /\ sup[c].pc = "wait"
    /\ qinst[c] # "running"
    /\ sup' = [sup EXCEPT ![c].waitErr = WaitError(qinst[c]),
                          ![c].pc = IF WaitError(qinst[c]) THEN "check" ELSE "done"]
    /\ UNCHANGED << cpc, opts, cret, effects, qinst, tries, mu, tearingDown, machs, pcD,
                    toRelease >>
    /\ UNCHANGED earlyExit
    /\ UNCHANGED notCluster

\* the values the unsynchronized read of qc.tearingDown can return: the
\* write of Destroy is ordered before the read only through the release of
\* this machine's process; otherwise the read may still see the initial value
ReadTearingDown(c) ==
    IF qinst[c] = "released" THEN {tearingDown} ELSE {tearingDown, FALSE}

\* a supervisor that ignores the flag
SupLogsEveryError(err, td) == err

\* if err != nil && !qc.tearingDown { plog.Errorf(...) }
SupLogs(err, td) == err /\ ~td

Sup_Check(c) ==
    /\ sup[c].pc = "check"
    /\ \E td \in ReadTearingDown(c) :
         sup' = [sup EXCEPT ![c].saw = IF td THEN "true" ELSE "false",
                            ![c].logs = IF SupLogs(sup[c].waitErr, td) THEN @ + 1 ELSE @,
                            ![c].pc = "done"]
    /\ UNCHANGED << cpc, opts, cret, effects, qinst, tries, mu, tearingDown, machs, pcD,
                    toRelease >>
    /\ UNCHANGED earlyExit
    /\ UNCHANGED notCluster

\* a Destroy that releases the machines before it sets the flag
DestroyOrderReleaseFirst == << "release", "flag", "delcluster" >>

\* the statements of Cluster.Destroy, in program order: qc.tearingDown = true,
\* qc.BaseCluster.Destroy(), qc.flight.DelCluster(qc)
DestroyOrder == << "flag", "release", "delcluster" >>

\* the statement Cluster.Destroy is at; "" before the call and after the return
DestroyAt == IF pcD \in 1..Len(DestroyOrder) THEN DestroyOrder[pcD] ELSE ""

\* Cluster.Destroy goes on to its next statement; BaseCluster.Destroy starts
\* from the machines registered at that moment
DestroyAdvance ==
    /\ pcD' = pcD + 1
    /\ toRelease' = IF pcD + 1 <= Len(DestroyOrder) /\ DestroyOrder[pcD + 1] = "release"
                    THEN machs ELSE {}

Cluster_Destroy ==
    /\ pcD = 0
    /\ DestroyAdvance
    /\ UNCHANGED << cpc, opts, cret, effects, qinst, tries, mu, tearingDown, machs, sup >>
    /\ UNCHANGED earlyExit
    /\ UNCHANGED notCluster

\* qc.tearingDown = true
Destroy_SetFlag ==
    /\ DestroyAt = "flag"
    /\ tearingDown' = TRUE
    /\ DestroyAdvance
    /\ UNCHANGED << cpc, opts, cret, effects, qinst, tries, mu, machs, sup >>
    /\ UNCHANGED earlyExit
    /\ UNCHANGED notCluster

\* BaseCluster.Destroy releases one machine: machine.Destroy ends its
\* process and removes it from the member set
Destroy_Release(m) ==
    /\ DestroyAt = "release"
    /\ m \in toRelease
    /\ qinst' = [qinst EXCEPT ![m] = Killed(@, "released")]
    /\ machs' = machs \ {m}
    /\ toRelease' = toRelease \ {m}
    /\ UNCHANGED << cpc, opts, cret, effects, tries, mu, tearingDown, sup, pcD >>
    /\ UNCHANGED earlyExit
    /\ UNCHANGED notCluster

\* BaseCluster.Destroy returns once every machine was released
Destroy_Released ==
    /\ DestroyAt = "release"
    /\ toRelease = {}
    /\ DestroyAdvance
    /\ UNCHANGED << cpc, opts, cret, effects, qinst, tries, mu, tearingDown, machs, sup >>
    /\ UNCHANGED earlyExit
    /\ UNCHANGED notCluster

\* qc.flight.DelCluster(qc), and the return
Destroy_DelCluster ==
    /\ DestroyAt = "delcluster"
    /\ DestroyAdvance
    /\ UNCHANGED << cpc, opts, cret, effects, qinst, tries, mu, tearingDown, machs, sup >>
    /\ UNCHANGED earlyExit
    /\ UNCHANGED notCluster

ClusterNext ==
    \/ \E c \in Machines : NewMachine(c)
    \/ \E c \in Machines : NM_InstanceType(c)
    \/ \E c \in Machines : NM_Mkdir(c)
    \/ \E c \in Machines : NM_Lock(c)
    \/ \E c \in Machines : NM_Render(c)
    \/ \E c \in Machines : NM_Journal(c)
    \/ \E c \in Machines : NM_Config(c)
    \/ \E c \in Machines : NM_Fallible(c)
    \/ \E c \in Machines : NM_ParseDisk(c)
    \/ \E c \in Machines : NM_Exec(c)
    \/ \E c \in Machines : NM_Poll(c)
    \/ \E c \in Machines : NM_Start(c)
    \/ \E c \in Machines : NM_AddMach(c)
    \/ \E c \in Machines : NM_Spawn(c)
    \/ \E c \in Machines : NM_Return(c)
    \/ \E c \in Machines : ProcessExits(c)
    \/ \E c \in Machines : Sup_Wait(c)
    \/ \E c \in Machines : Sup_Check(c)
    \/ Cluster_Destroy
    \/ Destroy_SetFlag
    \/ \E m \in Machines : Destroy_Release(m)
    \/ Destroy_Released
    \/ Destroy_DelCluster

(***************************************************************************)
(* Strings as sequences of characters: strings.Split, strings.SplitN,      *)
(* strings.HasSuffix, strings.TrimSuffix, strconv.ParseInt, fmt's %d.      *)
(***************************************************************************)
RECURSIVE SplitFrom(_, _, _)
\* the pieces of s between the separators, cur being the piece in progress
SplitFrom(s, sep, cur) ==
    IF s = <<>> THEN << cur >>
    ELSE IF Head(s) = sep THEN << cur >> \o SplitFrom(Tail(s), sep, <<>>)
    ELSE SplitFrom(Tail(s), sep, Append(cur, Head(s)))

\* strings.Split(s, sep) for a separator of one character: never empty
Split(s, sep) == SplitFrom(s, sep, <<>>)

\* strings.SplitN(s, sep, 2): s is cut at the first separator only
SplitN2(s, sep) ==
    IF \E i \in 1..Len(s) : s[i] = sep
    THEN LET i == CHOOSE j \in 1..Len(s) : s[j] = sep /\ \A k \in 1..(j-1) : s[k] # sep
         IN  << SubSeq(s, 1, i - 1), SubSeq(s, i + 1, Len(s)) >>
    ELSE << s >>

\* strings.HasSuffix and strings.TrimSuffix for a suffix of one character
HasSuffix(s, c) == s # <<>> /\ s[Len(s)] = c
TrimSuffix(s, c) == IF HasSuffix(s, c) THEN SubSeq(s, 1, Len(s) - 1) ELSE s

DigitChars == << "0", "1", "2", "3", "4", "5", "6", "7", "8", "9" >>
IsDigit(c) == \E i \in 1..Len(DigitChars) : DigitChars[i] = c
DigitVal(c) == (CHOOSE i \in 1..Len(DigitChars) : DigitChars[i] = c) - 1

RECURSIVE DigitsVal(_)
\* the number a sequence of decimal digits denotes
DigitsVal(s) ==
    IF s = <<>> THEN 0 ELSE DigitsVal(SubSeq(s, 1, Len(s) - 1)) * 10 + DigitVal(s[Len(s)])

RECURSIVE StripZeros(_)
StripZeros(s) == IF s # <<>> /\ Head(s) = "0" THEN StripZeros(Tail(s)) ELSE s

\* the largest value of 32 bits
MaxInt32 == 2147483647

\* whether the digits (without leading zeros) denote a magnitude of 32 bits:
\* at most 2^31 - 1, or 2^31 for a negative number
FitsInt32(sig, negative) ==
    \/ Len(sig) <= 9
    \/ /\ Len(sig) = 10
       /\ LET high == DigitsVal(SubSeq(sig, 1, 9))
              low == DigitVal(sig[10])
          IN  \/ high < MaxInt32 \div 10
              \/ /\ high = MaxInt32 \div 10
                 /\ low <= (MaxInt32 % 10) + (IF negative THEN 1 ELSE 0)

\* the number the digits denote, negated when the sign says so
SignedVal(sig, negative) ==
    IF sig = <<>> THEN 0
    ELSE IF negative
    THEN (0 - DigitsVal(SubSeq(sig, 1, Len(sig) - 1))) * 10 - DigitVal(sig[Len(sig)])
    ELSE DigitsVal(sig)

\* strconv.ParseInt(s, 10, 32): an optional sign, then one digit at least,
\* and a value that fits 32 bits
ParseInt32(s) ==
    LET signed == s # <<>> /\ Head(s) \in {"+", "-"}
        negative == signed /\ Head(s) = "-"
        digits == IF signed THEN Tail(s) ELSE s
        wellFormed == digits # <<>> /\ \A i \in 1..Len(digits) : IsDigit(digits[i])
        sig == StripZeros(digits)
    IN  IF wellFormed /\ FitsInt32(sig, negative)
        THEN [ok |-> TRUE, val |-> SignedVal(sig, negative)]
        ELSE [ok |-> FALSE, val |-> 0]

RECURSIVE Itoa(_)
\* the decimal digits of a natural number (fmt's %d)
Itoa(n) ==
    IF n < 10 THEN << DigitChars[n + 1] >>
    ELSE Itoa(n \div 10) \o << DigitChars[(n % 10) + 1] >>

(***************************************************************************)
(* util.ParseDiskSpec and platform.ParseDisk.                              *)
(***************************************************************************)
\* the map without keys
EmptyMap == [k \in {} |-> <<>>]

RECURSIVE OptsToMap(_, _)
\* the loop over the options: "key=value" maps key to value, "key" maps key
\* to the empty string; a later option replaces an earlier one of the same key
OptsToMap(optlist, m) ==
    IF optlist = <<>> THEN m
    ELSE LET kvsplit == SplitN2(Head(optlist), "=")
             key == kvsplit[1]
             value == IF Len(kvsplit) = 1 THEN <<>> ELSE kvsplit[2]
         IN  OptsToMap(Tail(optlist),
                       [k \in DOMAIN m \cup {key} |-> IF k = key THEN value ELSE m[k]])

DiskSpecResult(err, size, diskmap) == [err |-> err, size |-> size, diskmap |-> diskmap]

\* util.ParseDiskSpec(spec, allowNoSize); err is "" for nil
ParseDiskSpec(spec, allowNoSize) ==
    LET split == Split(spec, ":")
        disksize == TrimSuffix(split[1], "G")
        parsed == ParseInt32(disksize)
    IN  IF split[1] = <<>> /\ ~allowNoSize
        THEN DiskSpecResult("no size provided", 0, EmptyMap)
        ELSE IF split[1] # <<>> /\ ~HasSuffix(split[1], "G")
        THEN DiskSpecResult("invalid size opt", 0, EmptyMap)
        ELSE IF Len(split) > 2
        THEN DiskSpecResult("invalid disk spec", 0, EmptyMap)
        ELSE IF split[1] # <<>> /\ ~parsed.ok
        THEN DiskSpecResult("failed to convert", 0, EmptyMap)
        ELSE DiskSpecResult("",
                            IF split[1] = <<>> THEN 0 ELSE parsed.val,
                            IF Len(split) = 2
                            THEN OptsToMap(Split(split[2], ","), EmptyMap)
                            ELSE EmptyMap)

KeyChannel == << "c", "h", "a", "n", "n", "e", "l" >>
KeyMpath == << "m", "p", "a", "t", "h" >>
Key4k == << "4", "k" >>

\* fmt.Sprintf("%dG", n)
SprintfG(n) == Itoa(n) \o << "G" >>

\* platform.ParseDisk: the disk a specification describes
ParseDisk(spec, allowNoSize) ==
    LET r == ParseDiskSpec(spec, allowNoSize)
        dm == r.diskmap
    IN  IF r.err # "" THEN [err |-> r.err, disk |-> ZeroDisk]
        ELSE IF \E k \in DOMAIN dm : k \notin {KeyChannel, KeyMpath, Key4k}
        THEN [err |-> "invalid key", disk |-> ZeroDisk]
        ELSE [err |-> "",
              disk |-> [Size |-> IF r.size > 0 THEN SprintfG(r.size) ELSE <<>>,
                        Channel |-> IF KeyChannel \in DOMAIN dm THEN dm[KeyChannel] ELSE <<>>,
                        SectorSize |-> IF Key4k \in DOMAIN dm THEN 4096 ELSE 0,
                        LogicalSectorSize |-> 0,
                        MultiPathDisk |-> KeyMpath \in DOMAIN dm]]

(***************************************************************************)
(* The boot disk of NewMachineWithQemuOptions (cluster.go:148-187), with   *)
(* its data: one call configures primaryDisk from its options and from the *)
(* flight's options and hands it to builder.AddBootDisk.                   *)
(***************************************************************************)
\* the primary disk specifications a caller passes: "", "20G", "20M",
\* "20G:channel=virtio", ":mpath,4k", "20G:mpath:4k"
PrimaryDisks ==
    { <<>>,
      << "2", "0", "G" >>,
      << "2", "0", "M" >>,
      << "2", "0", "G", ":", "c", "h", "a", "n", "n", "e", "l", "=", "v", "i", "r", "t", "i", "o" >>,
      << ":", "m", "p", "a", "t", "h", ",", "4", "k" >>,
      << "2", "0", "G", ":", "m", "p", "a", "t", "h", ":", "4", "k" >> }

ChanNvme == << "n", "v", "m", "e" >>

\* options.MinDiskSize, and qc.flight.opts.DiskSize ("" and "10G")
MinDiskSizes == {0, 8}
DiskSizes == { <<>>, << "1", "0", "G" >> }

BootDiskOrder ==
    << "bd_parse", "bd_cex", "bd_channel", "bd_sector", "bd_multipath", "bd_size",
       "bd_add" >>

\* the configuration goes on to its next statement
BdAdvance ==
    /\ dpc' = After(BootDiskOrder, dpc)
    /\ UNCHANGED << dopts, fopts, dret >>

\* NewMachineWithQemuOptions returns: its locals and arguments cease to exist
BdReturn(how) ==
    /\ dret' = how
    /\ dpc' = "done"
    /\ dopts' = NoDiskOptions
    /\ fopts' = NoFlightOptions
    /\ primaryDisk' = ZeroDisk

\* a caller asks for a machine on a cluster of some flight; var primaryDisk
BootDisk_Call ==
    /\ dpc = "idle"
    /\ dret = "none"
    /\ \E pd \in PrimaryDisks, nvme \in BOOLEAN, mp \in BOOLEAN, min \in MinDiskSizes :
         dopts' = [PrimaryDisk |-> pd, Nvme |-> nvme, MultiPathDisk |-> mp,
                   MinDiskSize |-> min]
    /\ \E nvme \in BOOLEAN, n4k \in BOOLEAN, e512 \in BOOLEAN, mp \in BOOLEAN,
          size \in DiskSizes :
         fopts' = [Nvme |-> nvme, Native4k |-> n4k, Disk512e |-> e512,
                   MultiPathDisk |-> mp, DiskSize |-> size]
    /\ primaryDisk' = ZeroDisk
    /\ dpc' = "bd_parse"
    /\ UNCHANGED dret
    /\ UNCHANGED notDisk

\* if options.PrimaryDisk != "" { diskp, err = platform.ParseDisk(...);
\* primaryDisk = *diskp }
BootDisk_Parse ==
    /\ dpc = "bd_parse"
    /\ LET r == ParseDisk(dopts.PrimaryDisk, TRUE)
       IN  IF dopts.PrimaryDisk = <<>>
           THEN BdAdvance /\ UNCHANGED primaryDisk
           ELSE IF r.err # ""
           THEN BdReturn("err_disk")
           ELSE BdAdvance /\ primaryDisk' = r.disk
    /\ UNCHANGED notDisk

\* if qc.flight.opts.Cex || options.Cex { builder.AddCexDevice() }
BootDisk_Cex ==
    /\ dpc = "bd_cex"
    /\ \E ok \in BOOLEAN :
         IF ok THEN BdAdvance /\ UNCHANGED primaryDisk
         ELSE BdReturn("err")
    /\ UNCHANGED notDisk

\* if qc.flight.opts.Nvme || options.Nvme { primaryDisk.Channel = "nvme" }
ChannelOf(d, o, f) == IF f.Nvme \/ o.Nvme THEN ChanNvme ELSE d.Channel

BootDisk_Channel ==
    /\ dpc = "bd_channel"
    /\ primaryDisk' = [primaryDisk EXCEPT !.Channel = ChannelOf(primaryDisk, dopts, fopts)]
    /\ BdAdvance
    /\ UNCHANGED notDisk

\* if Native4k { SectorSize = 4096 } else if Disk512e { SectorSize = 4096;
\* LogicalSectorSize = 512 }
BootDisk_SectorSize ==
    /\ dpc = "bd_sector"
    /\ primaryDisk' =
         IF fopts.Native4k
         THEN [primaryDisk EXCEPT !.SectorSize = 4096]
         ELSE IF fopts.Disk512e
         THEN [primaryDisk EXCEPT !.SectorSize = 4096, !.LogicalSectorSize = 512]
         ELSE primaryDisk
    /\ BdAdvance
    /\ UNCHANGED notDisk

\* if options.MultiPathDisk || qc.flight.opts.MultiPathDisk { ... = true }
BootDisk_MultiPath ==
    /\ dpc = "bd_multipath"
    /\ primaryDisk' =
         IF dopts.MultiPathDisk \/ fopts.MultiPathDisk
         THEN [primaryDisk EXCEPT !.MultiPathDisk = TRUE]
         ELSE primaryDisk
    /\ BdAdvance
    /\ UNCHANGED notDisk

\* if options.MinDiskSize > 0 { Size = Sprintf("%dG", MinDiskSize) }
\* else if qc.flight.opts.DiskSize != "" { Size = DiskSize }
SizeOf(d, o, f) ==
    IF o.MinDiskSize > 0 THEN SprintfG(o.MinDiskSize)
    ELSE IF f.DiskSize # <<>> THEN f.DiskSize
    ELSE d.Size

BootDisk_Size ==
    /\ dpc = "bd_size"
    /\ primaryDisk' = [primaryDisk EXCEPT !.Size = SizeOf(primaryDisk, dopts, fopts)]
    /\ BdAdvance
    /\ UNCHANGED notDisk

\* builder.AddBootDisk(&primaryDisk), and the rest of the call
BootDisk_Add ==
    /\ dpc = "bd_add"
    /\ \E ok \in BOOLEAN : BdReturn(IF ok THEN "added" ELSE "err")
    /\ UNCHANGED notDisk

DiskNext ==
    \/ BootDisk_Call
    \/ BootDisk_Parse
    \/ BootDisk_Cex
    \/ BootDisk_Channel
    \/ BootDisk_SectorSize
    \/ BootDisk_MultiPath
    \/ BootDisk_Size
    \/ BootDisk_Add

(***************************************************************************)
(* Go slices of kernel arguments: append writes into the backing array of  *)
(* its first operand when the capacity allows it, and copies to a new      *)
(* array otherwise.                                                        *)
(***************************************************************************)
\* the elements of slice s in heap h
Elems(h, s) == IF s.len = 0 THEN <<>> ELSE SubSeq(h[s.arr], 1, s.len)

\* xs followed by zero values up to n cells
Pad(xs, n) == [i \in 1..n |-> IF i <= Len(xs) THEN xs[i] ELSE <<>>]

Allocated(h, s) == [heap |-> h, slice |-> s]

\* a slice of a new array that holds xs and has room for c elements; the
\* literal []string{} has no array
Literal(h, xs, c) ==
    IF c = 0 THEN Allocated(h, NilSlice)
    ELSE Allocated(Append(h, Pad(xs, c)), [arr |-> Len(h) + 1, len |-> Len(xs), cap |-> c])

\* the capacity of the array a growing append allocates: the old capacity
\* doubled, or what is needed when that is more
GrowCap(cap, needed) == IF needed > 2 * cap THEN needed ELSE 2 * cap

\* append(s, xs...)
GoAppend(h, s, xs) ==
    LET n == s.len + Len(xs)
    IN  IF xs = <<>> THEN Allocated(h, s)
        ELSE IF n <= s.cap
        THEN Allocated([h EXCEPT ![s.arr] =
                           [i \in 1..s.cap |-> IF i > s.len /\ i <= n
                                               THEN xs[i - s.len] ELSE @[i]]],
                       [s EXCEPT !.len = n])
        ELSE Literal(h, Elems(h, s) \o xs, GrowCap(s.cap, n))

RECURSIVE Join(_, _)
\* strings.Join(args, sep): the pieces of the arguments with the separator
\* between two arguments
Join(args, sep) ==
    IF args = <<>> THEN <<>>
    ELSE IF Len(args) = 1 THEN args[1]
    ELSE args[1] \o << sep >> \o Join(Tail(args), sep)

(***************************************************************************)
(* The rendering of the kernel arguments and of the installer's            *)
(* configuration (platform/metal.go).                                      *)
(***************************************************************************)
consoleKernelArgument(arch) ==
    CASE arch = "x86_64" -> "ttyS0,115200n8"
      [] arch = "ppc64le" -> "hvc0"
      [] arch = "aarch64" -> "ttyAMA0"
      [] arch = "s390x" -> "ttysclp0"
      [] OTHER -> ""

\* append(baseKargs, fmt.Sprintf("console=%s", consoleKernelArgument[arch]))
renderBaseKargs(h, arch) ==
    GoAppend(h, BaseSlice, << << "console=", consoleKernelArgument(arch) >> >>)

DebugKargs ==
    << << "systemd.log_color=0" >>, << "systemd.log_level=debug" >>,
       << "systemd.journald.forward_to_console=1" >>,
       << "systemd.journald.max_level_console=debug" >> >>

\* the hook that ignores the environment
renderNoDebugKargs(debug) == <<>>

\* the elements renderCosaTestIsoDebugKargs returns, given whether
\* COSA_TESTISO_DEBUG is set
DebugElems(debug) == IF debug THEN DebugKargs ELSE <<>>

\* renderCosaTestIsoDebugKargs(): a new slice at each call
renderCosaTestIsoDebugKargs(h, debug) ==
    Literal(h, DebugElems(debug), Len(DebugElems(debug)))

\* the name of the metal image and of the rootfs in the served directory
MetalName == "metal.raw"
RootfsName == "rootfs.img"

\* fmt.Sprintf("http://%s:%d", addr, port)
BaseUrl(addr, port) == << "http://", addr, ":" >> \o Itoa(port)

\* the installer's arguments without the URL of the target configuration
renderInstallKargsNoConfig(baseurl, offline, insecure) ==
    << << "coreos.inst.install_dev=/dev/vda" >> >>
        \o (IF ~offline
            THEN << << "coreos.inst.image_url=" >> \o baseurl \o << "/", MetalName >> >>
            ELSE <<>>)
        \o (IF insecure THEN << << "coreos.inst.insecure" >> >> ELSE <<>>)

\* renderInstallKargs(t, offline): the elements of the slice it returns
renderInstallKargs(baseurl, offline, insecure) ==
    << << "coreos.inst.install_dev=/dev/vda" >>,
       << "coreos.inst.ignition_url=" >> \o baseurl \o << "/config.ign" >> >>
        \o (IF ~offline
            THEN << << "coreos.inst.image_url=" >> \o baseurl \o << "/", MetalName >> >>
            ELSE <<>>)
        \o (IF insecure THEN << << "coreos.inst.insecure" >> >> ELSE <<>>)

\* the rootfs argument completePxeSetup appends
RootfsKargs(baseurl, rootfs, appendRootfs) ==
    IF rootfs # "" /\ ~appendRootfs
    THEN << << "coreos.live.rootfs_url=" >> \o baseurl \o << "/", rootfs >> >>
    ELSE <<>>

\* yaml.Marshal(installerConfig): the fields in the order of the struct, a
\* field tagged omitempty being left out when it has its zero value
Marshal(ic) ==
    (IF ic.ImageURL # <<>> THEN << << "image-url", ic.ImageURL >> >> ELSE <<>>)
        \o (IF ic.IgnitionFile # <<>> THEN << << "ignition-file", ic.IgnitionFile >> >>
            ELSE <<>>)
        \o (IF ic.Insecure THEN << << "insecure", TRUE >> >> ELSE <<>>)
        \o (IF ic.AppendKargs # <<>> THEN << << "append-karg", ic.AppendKargs >> >> ELSE <<>>)
        \o (IF ic.CopyNetwork THEN << << "copy-network", TRUE >> >> ELSE <<>>)
        \o (IF ic.DestDevice # <<>> THEN << << "dest-device", ic.DestDevice >> >> ELSE <<>>)
        \o (IF ic.Console # <<>> THEN << << "console", ic.Console >> >> ELSE <<>>)

\* the file liveIgnition.AddFile adds
File(path, contents) == [path |-> path, contents |-> contents]

MantleYaml == "/etc/coreos/installer.d/mantle.yaml"

\* pxe.networkdevice and pxe.bootindex as the architecture switch of setup
\* sets them
NetworkDeviceOf(arch) ==
    CASE arch = "x86_64" -> "e1000"
      [] arch \in {"aarch64", "ppc64le"} -> "virtio-net-pci"
      [] arch = "s390x" -> "virtio-net-ccw"
      [] OTHER -> ""

BootIndexOf(arch, fw) ==
    CASE arch = "x86_64" -> IF fw = "uefi" THEN "2" ELSE ""
      [] arch \in {"aarch64", "s390x"} -> "1"
      [] OTHER -> ""

TftpAddrOf(arch) == IF arch = "s390x" THEN "10.0.2.2" ELSE "192.168.76.2"

PxeLinux0 == "/pxelinux.0"

\* a switch that names the boot file of pxelinux at once
BootFileEarly(arch, fw) ==
    CASE arch = "x86_64" -> IF fw = "uefi" THEN "/boot/grub2/grubx64.efi" ELSE PxeLinux0
      [] arch = "aarch64" -> "/boot/grub2/grubaa64.efi"
      [] arch = "ppc64le" -> "/boot/grub2/powerpc-ieee1275/core.elf"
      [] arch = "s390x" -> PxeLinux0
      [] OTHER -> ""

\* pxe.bootfile and pxe.pxeimagepath as the architecture switch of setup
\* sets them: the boot file of the grub cases only
BootFileOf(arch, fw) ==
    CASE arch = "x86_64" -> IF fw = "uefi" THEN "/boot/grub2/grubx64.efi" ELSE ""
      [] arch = "aarch64" -> "/boot/grub2/grubaa64.efi"
      [] arch = "ppc64le" -> "/boot/grub2/powerpc-ieee1275/core.elf"
      [] OTHER -> ""

PxeImagePathOf(arch, fw) ==
    CASE arch = "x86_64" ->
            IF fw = "uefi" THEN "/boot/efi/EFI/fedora/grubx64.efi" ELSE "/usr/share/syslinux/"
      [] arch = "aarch64" -> "/boot/efi/EFI/fedora/grubaa64.efi"
      [] OTHER -> ""

\* the pxeSetup the switch builds
PxeSetupOf(arch, fw) ==
    [tftpipaddr |-> TftpAddrOf(arch), boottype |-> BootTypeOf(arch, fw),
     networkdevice |-> NetworkDeviceOf(arch), bootindex |-> BootIndexOf(arch, fw),
     bootfile |-> BootFileOf(arch, fw), pxeimagepath |-> PxeImagePathOf(arch, fw)]

\* what completePxeSetup writes under the TFTP directory: first the
\* configuration of pxelinux or the network directory of grub, then the
\* boot images and, for grub, its configuration
PxeConfigFiles(bt) ==
    CASE bt = "pxe" -> {"pxelinux.cfg/default"}
      [] bt = "grub" -> {"boot/grub2/"}
      [] OTHER -> {}

PxeImageFiles(bt, img) ==
    CASE bt = "pxe" ->
            IF img = "" THEN {"pxelinux.0"} ELSE {"pxelinux.0", "ldlinux.c32"}
      [] bt = "grub" ->
            (IF img # "" THEN {"boot/grub2/image"} ELSE {})
                \cup {"boot/grub2/grub.cfg"}
      [] OTHER -> {}

\* the hosts and firmwares an Install object runs with
Platforms ==
    { << "x86_64", "bios" >>, << "x86_64", "uefi" >>, << "aarch64", "uefi" >>,
      << "ppc64le", "bios" >>, << "s390x", "bios" >>, << "riscv64", "uefi" >> }

\* the kernel arguments a caller passes, and the capacity of its slice
CallerKargs ==
    { [elems |-> <<>>, cap |-> 0],
      [elems |-> << << "a=1" >>, << "b" >> >>, cap |-> 3] }

\* the port the operating system gives the listener: the runs compared are
\* the ones with the same base URL
Ports == {40001}

\* the two install runs made on one Install object
TwoRuns == {"first", "second"}

\* what identifies a run: the method, the caller's arguments, the mode flags
\* and the port of the base URL
InputsOf(r, h) ==
    [method |-> r.method, kargs |-> Elems(h, r.kargs), offline |-> r.offline,
     minimal |-> r.minimal, port |-> r.port]

\* the arrays still referenced once a call has returned: the one of
\* baseKargs and the one of inst.kargs
Collect(h, s) ==
    IF s.arr \in {0, BaseSlice.arr}
    THEN Allocated(<< h[BaseSlice.arr] >>, s)
    ELSE Allocated(<< h[BaseSlice.arr], h[s.arr] >>, [s EXCEPT !.arr = 2])

\* the call goes on to statement p
RenderGoto(p) ==
    /\ kpc' = p
    /\ UNCHANGED << env, kret, runs >>

\* the call returns: it is recorded, with what it rendered if it returned the
\* handle, and its arguments and locals cease to exist
RenderReturn(how, out) ==
    /\ kret' = how
    /\ kpc' = "idle"
    /\ runs' = Append(runs, [in |-> InputsOf(krun, heap), ret |-> how,
                             out |-> IF how = "mach" THEN out ELSE NoOutput])
    /\ krun' = NoRun
    /\ kout' = NoOutput
    /\ heap' = Collect(heap, inst.kargs).heap
    /\ inst' = [inst EXCEPT !.kargs = Collect(heap, inst.kargs).slice]
    /\ UNCHANGED env

\* the harness runs on some host and builds an Install object
Render_NewInstall ==
    /\ kpc = "none"
    /\ \E pf \in Platforms, debug \in BOOLEAN, insecure \in BOOLEAN, mp \in BOOLEAN,
          ar \in BOOLEAN, kf \in BOOLEAN :
         /\ env' = [arch |-> pf[1], debug |-> debug]
         /\ inst' = [Firmware |-> pf[2], Insecure |-> insecure, MultiPathDisk |-> mp,
                     PxeAppendRootfs |-> ar, NmKeyfiles |-> kf, kargs |-> NilSlice]
    /\ kpc' = "idle"
    /\ UNCHANGED << heap, krun, kout, kret, runs >>
    /\ UNCHANGED notRender

\* inst.kargs keeps what it held and is appended to
KargsAccumulated(h, old, debug, kargs) ==
    GoAppend(GoAppend(h, old, DebugElems(debug)).heap,
             GoAppend(h, old, DebugElems(debug)).slice, kargs)

\* inst.kargs = append(renderCosaTestIsoDebugKargs(), kargs...)
KargsAtEntry(h, old, debug, kargs) ==
    GoAppend(renderCosaTestIsoDebugKargs(h, debug).heap,
             renderCosaTestIsoDebugKargs(h, debug).slice, kargs)

\* Install.PXE up to its call of runPXE: the installer's configuration is
\* built and added to liveIgnition (except on s390x), and inst.kargs is set
Render_PXE ==
    /\ kpc = "idle"
    /\ Len(runs) < Cardinality(TwoRuns)
    /\ \E ck \in CallerKargs, off \in BOOLEAN :
         LET caller == Literal(heap, ck.elems, ck.cap)
             ic == [ZeroInstallerConfig EXCEPT
                      !.Console = << consoleKernelArgument(env.arch) >>,
                      !.AppendKargs = DebugElems(env.debug)]
             set == KargsAtEntry(caller.heap, inst.kargs, env.debug,
                                 Elems(caller.heap, caller.slice))
         IN  /\ krun' = [NoRun EXCEPT !.method = "pxe", !.kargs = caller.slice,
                                      !.offline = off, !.installerConfig = ic]
             /\ kout' = [NoOutput EXCEPT !.liveFiles =
                            IF env.arch # "s390x"
                            THEN << File(<< MantleYaml >>, Marshal(ic)) >> ELSE <<>>]
             /\ heap' = set.heap
             /\ inst' = [inst EXCEPT !.kargs = set.slice]
    /\ RenderGoto("k_setup")
    /\ UNCHANGED notRender

\* Install.setup: the architecture switch, the listener and the base URL
Render_Setup ==
    /\ kpc = "k_setup"
    /\ \E ok \in BOOLEAN, port \in Ports :
         LET pxe == PxeSetupOf(env.arch, inst.Firmware)
         IN  IF ok /\ pxe.boottype # ""
             THEN /\ krun' = [krun EXCEPT !.pxe = pxe, !.port = port,
                                          !.baseurl = BaseUrl(pxe.tftpipaddr, port)]
                  /\ kout' = [kout EXCEPT !.served = TRUE]
                  /\ RenderGoto("k_runpxe")
                  /\ UNCHANGED << inst, heap >>
             ELSE RenderReturn("err", kout)
    /\ UNCHANGED notRender

\* the kernel arguments runPXE hands to completePxeSetup
PxeKargs(h, arch, instKargs, baseurl, offline, insecure) ==
    LET base == renderBaseKargs(h, arch)
        caller == GoAppend(base.heap, base.slice, instKargs)
        live == GoAppend(caller.heap, caller.slice,
                         << << "ignition.config.url=" >> \o baseurl \o << "/pxe-live.ign" >> >>)
    IN  GoAppend(live.heap, live.slice, renderInstallKargs(baseurl, offline, insecure))

\* runPXE after setup: the kernel arguments are rendered and completePxeSetup
\* joins them into kargsStr
Render_RunPXE ==
    /\ kpc = "k_runpxe"
    /\ \E ok \in BOOLEAN :
         LET kargs == PxeKargs(heap, env.arch, Elems(heap, inst.kargs), krun.baseurl,
                               krun.offline, inst.Insecure)
             full == GoAppend(kargs.heap, kargs.slice,
                              RootfsKargs(krun.baseurl, RootfsName, inst.PxeAppendRootfs))
         IN  IF ok
             THEN /\ heap' = full.heap
                  /\ kout' = [kout EXCEPT !.cmdline = Join(Elems(full.heap, full.slice), " ")]
                  /\ RenderGoto("k_pxeconfig")
                  /\ UNCHANGED << inst, krun >>
             ELSE RenderReturn("err", kout)
    /\ UNCHANGED notRender

\* completePxeSetup, the switch on the boot type: os.Mkdir and the
\* configuration of pxelinux, or grub2-mknetdir; any other boot type panics
Render_PxeConfig ==
    /\ kpc = "k_pxeconfig"
    /\ \E ok \in BOOLEAN :
         IF krun.pxe.boottype \notin {"pxe", "grub"}
         THEN RenderReturn("panic", kout)
         ELSE IF ok
              THEN /\ kout' = [kout EXCEPT !.tftp = @ \cup PxeConfigFiles(krun.pxe.boottype)]
                   /\ RenderGoto("k_pxeimage")
                   /\ UNCHANGED << inst, heap, krun >>
              ELSE RenderReturn("err", kout)
    /\ UNCHANGED notRender

\* completePxeSetup, the rest of the case: mk-s390image or the two copies
\* from /usr/share/syslinux, and then t.pxe.bootfile = "/" + pxeimages[0];
\* or the copy of the grub image and grub.cfg
Render_PxeImage ==
    /\ kpc = "k_pxeimage"
    /\ \E ok \in BOOLEAN :
         IF ok
         THEN /\ kout' = [kout EXCEPT
                            !.tftp = @ \cup PxeImageFiles(krun.pxe.boottype,
                                                          krun.pxe.pxeimagepath)]
              /\ krun' = [krun EXCEPT
                            !.pxe.bootfile = IF krun.pxe.boottype = "pxe"
                                             THEN PxeLinux0 ELSE @]
              /\ RenderGoto("k_return")
              /\ UNCHANGED << inst, heap >>
         ELSE RenderReturn("err", kout)
    /\ UNCHANGED notRender

\* the launch and the return of the handle; installerRun.run names
\* t.pxe.bootfile in the -netdev argument of a PXE install
Render_Return ==
    /\ kpc = "k_return"
    /\ \E ok \in BOOLEAN :
         RenderReturn(IF ok THEN "mach" ELSE "err",
                      IF krun.method = "pxe"
                      THEN [kout EXCEPT !.bootfile = krun.pxe.bootfile] ELSE kout)
    /\ UNCHANGED notRender

\* the configurations: what they merge and what they hold; the caller's
\* target configuration, and conf.EmptyIgnition()
TargetConf == [merge |-> <<>>, body |-> << "target" >>]
EmptyIgnition == [merge |-> <<>>, body |-> <<>>]

\* Conf.AddConfigSource(url)
AddConfigSource(c, url) == [c EXCEPT !.merge = Append(@, url)]

\* Conf.String(): the serialized configuration
String(c) == << "{", c.merge, c.body, "}" >>

\* the address of the host as the guest sees it
defaultQemuHostIPv4 == "10.0.2.2"

PointerIgn == << "/var/opt/pointer.ign" >>
DevVda == << "/dev/vda" >>
DevMpath == << "/dev/mapper/mpatha" >>
MultipathKargs ==
    << << "rd.multipath=default" >>, << "root=/dev/disk/by-label/dm-mpath-root" >>,
       << "rw" >> >>

\* the installer always writes to /dev/vda
DestDeviceAlwaysVda(multipath) == DevVda

\* installerConfig.DestDevice
DestDeviceOf(multipath) == IF multipath THEN DevMpath ELSE DevVda

\* installerConfig as InstallViaISOEmbed first builds it
IsoInstallerConfig(h, arch, debug, multipath) ==
    LET dbg == renderCosaTestIsoDebugKargs(h, debug)
        app == IF multipath THEN GoAppend(dbg.heap, dbg.slice, MultipathKargs) ELSE dbg
    IN  [heap |-> app.heap,
         ic |-> [ZeroInstallerConfig EXCEPT
                   !.IgnitionFile = PointerIgn,
                   !.DestDevice = DestDeviceOf(multipath),
                   !.AppendKargs = Elems(app.heap, app.slice),
                   !.Console = IF arch # "s390x"
                               THEN << consoleKernelArgument(arch) >> ELSE <<>>]]

\* InstallViaISOEmbed up to os.MkdirTemp: the checks of the modes, the
\* installer's configuration, and inst.kargs
Render_ISO ==
    /\ kpc = "idle"
    /\ Len(runs) < Cardinality(TwoRuns)
    /\ \E ck \in CallerKargs, off \in BOOLEAN, min \in BOOLEAN :
         LET caller == Literal(heap, ck.elems, ck.cap)
             call == [NoRun EXCEPT !.method = "iso", !.kargs = caller.slice,
                                   !.offline = off, !.minimal = min]
             built == IsoInstallerConfig(caller.heap, env.arch, env.debug,
                                         inst.MultiPathDisk)
             set == KargsAtEntry(built.heap, inst.kargs, env.debug,
                                 Elems(caller.heap, caller.slice))
         IN  IF CantRunMinimalOffline(min, off) \/ KeyfilesWithOffline(off, inst.NmKeyfiles)
             THEN /\ kret' = IF CantRunMinimalOffline(min, off) THEN "panic" ELSE "err"
                  /\ kpc' = "idle"
                  /\ runs' = Append(runs, [in |-> InputsOf(call, caller.heap),
                                           ret |-> kret', out |-> NoOutput])
                  /\ UNCHANGED << env, inst, heap, krun, kout >>
             ELSE /\ krun' = [call EXCEPT !.installerConfig = built.ic]
                  /\ heap' = set.heap
                  /\ inst' = [inst EXCEPT !.kargs = set.slice]
                  /\ RenderGoto("k_target")
                  /\ UNCHANGED kout
    /\ UNCHANGED notRender

\* the live ISO of the build directory, its copy in the temporary directory
\* of the run, and the minimal ISO extracted there
BuildIso == "builddir/live.iso"
NewIso == "tempdir/install.iso"
MinIso == "tempdir/minimal.iso"

\* a run of an external tool: the file it reads and the file it writes or
\* modifies (the same one when it works in place)
Tool(name, src, dst) == [name |-> name, reads |-> src, writes |-> dst]

\* the copy is made and the path is left on the original
IsoNotReassigned(src) == src

\* srcisopath = newIso, after cp --reflink=auto and os.Chmod
IsoAfterCopy(src) == NewIso

\* the tools run from the copy of the ISO to the extraction of the minimal
\* ISO, and the path srcisopath ends on
CopyAndExtract(offline, minimal) ==
    LET copied == IsoAfterCopy(BuildIso)
        cp == << Tool("cp", BuildIso, NewIso), Tool("chmod", NewIso, NewIso) >>
    IN  IF ~offline /\ minimal
        THEN [tools |-> Append(cp, Tool("extract-minimal", copied, MinIso)),
              srcisopath |-> MinIso]
        ELSE [tools |-> cp, srcisopath |-> copied]

\* coreos-installer iso network embed, if there are keyfiles, then
\* coreos-installer iso kargs modify, if there are kernel arguments
EmbedTools(src, keyfiles, kargs) ==
    (IF keyfiles THEN << Tool("network-embed", src, src) >> ELSE <<>>)
        \o (IF kargs # <<>> THEN << Tool("kargs-modify", src, src) >> ELSE <<>>)

\* serializedTargetConfig: the target configuration itself when offline,
\* else a configuration that merges the served target.ign
PayloadOf(offline, baseurl) ==
    IF offline THEN String(TargetConf)
    ELSE String(AddConfigSource(EmptyIgnition, baseurl \o << "/target.ign" >>))

\* from os.MkdirTemp to the serialized target configuration: the target
\* configuration is written, the ISO is copied, and unless offline the
\* directory is served, the image URL is set (unless minimal) and the
\* pointer configuration is written to the output directory
Render_IsoTarget ==
    /\ kpc = "k_target"
    /\ \E ok \in BOOLEAN, port \in Ports :
         LET baseurl == IF krun.offline THEN <<>> ELSE BaseUrl(defaultQemuHostIPv4, port)
         IN  IF ok
             THEN /\ krun' = [krun EXCEPT
                                !.port = IF krun.offline THEN 0 ELSE port,
                                !.baseurl = baseurl,
                                !.installerConfig.ImageURL =
                                    IF ~krun.offline /\ ~krun.minimal
                                    THEN baseurl \o << "/", MetalName >> ELSE @,
                                !.serializedTargetConfig = PayloadOf(krun.offline, baseurl),
                                !.srcisopath =
                                    CopyAndExtract(krun.offline, krun.minimal).srcisopath]
                  /\ kout' = [kout EXCEPT
                                !.served = ~krun.offline,
                                !.tools = CopyAndExtract(krun.offline, krun.minimal).tools,
                                !.outFiles = {"config-target.ign"} \cup
                                    (IF krun.offline THEN {}
                                     ELSE {"config-target-pointer.ign"})]
                  /\ RenderGoto("k_embed")
                  /\ UNCHANGED << inst, heap >>
             ELSE RenderReturn("err", kout)
    /\ UNCHANGED notRender

\* the keyfiles are embedded (CopyNetwork is set and rd.neednet=1 is
\* appended to inst.kargs), and inst.kargs, if not empty, is appended to the
\* kernel arguments of the ISO
Render_IsoEmbed ==
    /\ kpc = "k_embed"
    /\ \E ok \in BOOLEAN :
         LET forced == IF inst.NmKeyfiles
                       THEN GoAppend(heap, inst.kargs, << << "rd.neednet=1" >> >>)
                       ELSE Allocated(heap, inst.kargs)
         IN  IF ok
             THEN /\ heap' = forced.heap
                  /\ inst' = [inst EXCEPT !.kargs = forced.slice]
                  /\ krun' = [krun EXCEPT !.installerConfig.CopyNetwork = inst.NmKeyfiles]
                  /\ kout' = [kout EXCEPT
                                !.isoKargs = Elems(forced.heap, forced.slice),
                                !.tools = @ \o EmbedTools(krun.srcisopath, inst.NmKeyfiles,
                                                          Elems(forced.heap, forced.slice))]
                  /\ RenderGoto("k_finish")
             ELSE RenderReturn("err", kout)
    /\ UNCHANGED notRender

\* usermode networking is requested whatever the mode
NetworkingAlways(offline) == TRUE

\* if !offline { qemubuilder.UsermodeNetworking = true }
NetworkingOf(offline) == ~offline

\* the insecure flag, yaml.Marshal, the files added to liveIgnition, the
\* signal channel, qemubuilder.AddIso(srcisopath, ...) and the networking of
\* the builder
Render_IsoFinish ==
    /\ kpc = "k_finish"
    /\ \E ok \in BOOLEAN :
         LET ic == [krun.installerConfig EXCEPT !.Insecure = inst.Insecure]
         IN  IF ok
             THEN /\ krun' = [krun EXCEPT !.installerConfig = ic]
                  /\ kout' = [kout EXCEPT
                                !.liveFiles = << File(ic.IgnitionFile,
                                                      krun.serializedTargetConfig),
                                                 File(<< MantleYaml >>, Marshal(ic)) >>,
                                !.attached = krun.srcisopath,
                                !.UsermodeNetworking = NetworkingOf(krun.offline)]
                  /\ RenderGoto("k_return")
                  /\ UNCHANGED << inst, heap >>
             ELSE RenderReturn("err", kout)
    /\ UNCHANGED notRender

RenderNext ==
    \/ Render_NewInstall
    \/ Render_PXE
    \/ Render_Setup
    \/ Render_RunPXE
    \/ Render_PxeConfig
    \/ Render_PxeImage
    \/ Render_ISO
    \/ Render_IsoTarget
    \/ Render_IsoEmbed
    \/ Render_IsoFinish
    \/ Render_Return

(***************************************************************************)
(* util.RunCmdTimeout: the command's process, the goroutine that waits for *)
(* it, the timer of time.After and the select between the two channels.    *)
(* A select with several communications that can proceed chooses one of    *)
(* them; the scheduler may run the process, the goroutine and the timer    *)
(* between any two statements of the caller.                               *)
(***************************************************************************)
\* the durations RunCmdTimeout is called with, and the instants of the clock
Timeouts == {0, 1, 2}
Instants == 0..3

\* how a command ends by itself
ExitStates == {"ok", "failed"}

\* the timeout has elapsed: the timer has expired, its value is or was in
\* its channel
Elapsed == timer \in {"fired", "received"}

\* return err / return nil / return fmt.Errorf(...)
CmdReturn(r) ==
    /\ tret' = r
    /\ tpc' = "idle"

\* c := exec.Command(cmd, args...); err := c.Start(); if err != nil { return err }
RunCmd_Start ==
    /\ tpc = "idle"
    /\ \E d \in Timeouts, started \in BOOLEAN :
         /\ timeout' = d
         /\ IF started
            THEN /\ cproc' = "running"
                 /\ tpc' = "make"
                 /\ tret' = "none"
            ELSE /\ cproc' = "none"
                 /\ CmdReturn("start: error")
    /\ now' = 0
    /\ deadline' = 0
    /\ timer' = "none"
    /\ inTime' = FALSE
    /\ wpc' = "none"
    /\ werr' = "none"
    /\ errc' = <<>>
    /\ UNCHANGED notCmd

\* errc := make(chan error, 1); go func() { errc <- c.Wait() }()
RunCmd_Go ==
    /\ tpc = "make"
    /\ errc' = <<>>
    /\ wpc' = "wait"
    /\ tpc' = "after"
    /\ UNCHANGED << timeout, now, deadline, timer, cproc, inTime, werr, tret >>
    /\ UNCHANGED notCmd

\* the select evaluates its channel operands: time.After(timeout) creates
\* the timer
RunCmd_After ==
    /\ tpc = "after"
    /\ deadline' = now + timeout
    /\ timer' = "armed"
    /\ tpc' = "select"
    /\ UNCHANGED << timeout, now, cproc, inTime, wpc, werr, errc, tret >>
    /\ UNCHANGED notCmd

\* time passes while the call is in progress
Tick ==
    /\ tpc # "idle"
    /\ now + 1 \in Instants
    /\ now' = now + 1
    /\ UNCHANGED << tpc, timeout, deadline, timer, cproc, inTime, wpc, werr, errc, tret >>
    /\ UNCHANGED notCmd

\* the runtime sends the time on the timer's channel once the duration has
\* elapsed
TimerFires ==
    /\ timer = "armed"
    /\ now >= deadline
    /\ timer' = "fired"
    /\ UNCHANGED << tpc, timeout, now, deadline, cproc, inTime, wpc, werr, errc, tret >>
    /\ UNCHANGED notCmd

\* the command ends by itself, with status 0 or not
ProcExits ==
    /\ cproc = "running"
    /\ \E st \in ExitStates : cproc' = st
    /\ inTime' = ~Elapsed
    /\ UNCHANGED << tpc, timeout, now, deadline, timer, wpc, werr, errc, tret >>
    /\ UNCHANGED notCmd

\* c.Wait() returns in the goroutine: nil if the command exited with status
\* 0, else an error
Waiter_Wait ==
    /\ wpc = "wait"
    /\ cproc \in ExitStates \cup {"killed"}
    /\ werr' = IF cproc = "ok" THEN NilErr ELSE cproc
    /\ wpc' = "send"
    /\ UNCHANGED << tpc, timeout, now, deadline, timer, cproc, inTime, errc, tret >>
    /\ UNCHANGED notCmd

\* errc <- (what c.Wait() returned): the channel has room for one value
Waiter_Send ==
    /\ wpc = "send"
    /\ Len(errc) < 1
    /\ errc' = Append(errc, werr)
    /\ wpc' = "done"
    /\ UNCHANGED << tpc, timeout, now, deadline, timer, cproc, inTime, werr, tret >>
    /\ UNCHANGED notCmd

\* case err := <-errc: the command's error, wrapped, or nil
RunCmd_RecvErrc ==
    /\ tpc = "select"
    /\ errc # <<>>
    /\ errc' = Tail(errc)
    /\ CmdReturn(IF Head(errc) # NilErr THEN "cmd: error" ELSE NilErr)
    /\ UNCHANGED << timeout, now, deadline, timer, cproc, inTime, wpc, werr >>
    /\ UNCHANGED notCmd

\* case <-time.After(timeout):
RunCmd_RecvTimer ==
    /\ tpc = "select"
    /\ timer = "fired"
    /\ timer' = "received"
    /\ tpc' = "kill"
    /\ UNCHANGED << timeout, now, deadline, cproc, inTime, wpc, werr, errc, tret >>
    /\ UNCHANGED notCmd

\* _ = c.Process.Kill(): it fails, and the failure is dropped, when the
\* process has ended already
RunCmd_Kill ==
    /\ tpc = "kill"
    /\ cproc' = IF cproc = "running" THEN "killed" ELSE cproc
    /\ tpc' = "drain"
    /\ UNCHANGED << timeout, now, deadline, timer, inTime, wpc, werr, errc, tret >>
    /\ UNCHANGED notCmd

\* <-errc; return fmt.Errorf("%s timed out after %s", cmd, timeout)
RunCmd_Drain ==
    /\ tpc = "drain"
    /\ errc # <<>>
    /\ errc' = Tail(errc)
    /\ CmdReturn("timed out")
    /\ UNCHANGED << timeout, now, deadline, timer, cproc, inTime, wpc, werr >>
    /\ UNCHANGED notCmd

CmdNext ==
    \/ RunCmd_Start
    \/ RunCmd_Go
    \/ RunCmd_After
    \/ Tick
    \/ TimerFires
    \/ ProcExits
    \/ Waiter_Wait
    \/ Waiter_Send
    \/ RunCmd_RecvErrc
    \/ RunCmd_RecvTimer
    \/ RunCmd_Kill
    \/ RunCmd_Drain

(***************************************************************************)
(* Specifications.                                                         *)
(***************************************************************************)
Next ==
    \/ PXE_Call
    \/ PXE_BeforeTempdir
    \/ setup_MkdirTemp
    \/ setup_Step
    \/ setup_Arch
    \/ setup_Return
    \/ runPXE_Step
    \/ runPXE_Transfer
    \/ runPXE_Attach
    \/ runPXE_Return
    \/ ISO_Call
    \/ ISO_Preconditions
    \/ ISO_MkdirTemp
    \/ ISO_Step
    \/ ISO_Transfer
    \/ ISO_Attach
    \/ ISO_Return
    \/ QemuExits
    \/ GuestWrites
    \/ StreamCloses
    \/ StreamFails
    \/ ProcWatcher_Wait
    \/ SigWatcher_ReadString
    \/ SigWatcher_Sleep
    \/ SigWatcher_Check
    \/ ConsumerWaits
    \/ Receive
    \/ Destroy

Spec == Init /\ [][Next]_vars

ClusterSpec == Init /\ [][ClusterNext]_vars

DiskSpec == Init /\ [][DiskNext]_vars

RenderSpec == Init /\ [][RenderNext]_vars

CmdSpec == Init /\ [][CmdNext]_vars

\* the operating system closes the write side of the pipe once the process
\* that held it has ended
PipeClosedOnExit == proc.state = "ended" /\ StreamCloses

\* goroutines that can run do run, the sleep elapses, a possible rendezvous
\* takes place, and the pipe of an ended process is closed
Fairness ==
    /\ WF_vars(ProcWatcher_Wait)
    /\ WF_vars(SigWatcher_ReadString)
    /\ WF_vars(SigWatcher_Sleep)
    /\ WF_vars(SigWatcher_Check)
    /\ WF_vars(Receive)
    /\ WF_vars(PipeClosedOnExit)

FairSpec == Init /\ [][Next]_vars /\ Fairness

(***************************************************************************)
(* Properties of the Boot Signal Synchronizer.                             *)
(***************************************************************************)
CleanExit == proc.state = "ended" /\ ~proc.waitErr /\ ~proc.signaled
AbnormalExit == proc.state = "ended" /\ (proc.waitErr \/ proc.signaled)
SigPastCheck == pcS \in {"send_ok", "send_swerr"} \/ (pcS = "done" /\ line # NoLine)

\* C1 (as stated): the result channel is never written, nor attempted to be
\* written, more than once in an install run.
C1_SingleWriteAttempt == sends["proc"] + sends["sig"] <= 1

\* C1 (amended): each watcher reaches at most one send statement; the
\* consumer, reading once, receives the value of exactly one of them, and
\* that watcher has ended; the other watcher may be blocked in its send.
C1_OneSendPerWatcher ==
    /\ sends["proc"] <= 1
    /\ sends["sig"] <= 1
    /\ Len(sendq) <= 2
    /\ (consumer = "got") <=> (resultFrom # "none")
    /\ resultFrom = "proc" => (pcP = "done" /\ result = ErrQemuExited)
    /\ resultFrom = "sig" => (pcS = "done" /\ result # ErrQemuExited)

\* both watchers reached their send and the consumer took one value
C1_Witness ==
    /\ sends["proc"] = 1
    /\ sends["sig"] = 1
    /\ consumer = "got"
    /\ Len(sendq) = 1

MarkerLineReadable ==
    /\ pcS = "read"
    /\ HasDelim(buf)
    /\ TrimSpace(ReadLine(buf)) = bootStartedSignal

\* C2: a consumer waiting on BootStartedErrorChannel eventually receives a
\* result when (a) the process exits with no error, (b) the stream returns
\* the marker line, (c) the stream is closed with no data, (d) the stream
\* returns a read error.
C2_ResultResolved ==
    (consumer = "waiting" /\ \/ CleanExit
                             \/ MarkerLineReadable
                             \/ (pcS = "read" /\ strm = "closed" /\ buf = <<>>)
                             \/ (pcS = "read" /\ strm = "error" /\ ~HasDelim(buf)))
        ~> (consumer = "got")

\* the process exited cleanly without a signal from the guest and the
\* consumer received the end-of-stream failure
C2_Witness ==
    /\ CleanExit
    /\ writes = 0
    /\ sends["proc"] = 0
    /\ consumer = "got"
    /\ result = ErrEOF

\* C3 (as stated): if the guest never writes, a waiting consumer eventually
\* receives a failure, whatever the process does (also when it keeps
\* running).
C3_NoDeadlockWithoutSignal ==
    (consumer = "waiting" /\ writes = 0)
        ~> (writes > 0 \/ (consumer = "got" /\ result # NilErr))

\* C3 (amended): if the guest never writes, a waiting consumer eventually
\* receives a failure once the process has ended (cleanly, with an error or
\* by a signal) or the stream was closed or failed.
C3_FailureOnceProcessEnds ==
    (consumer = "waiting" /\ writes = 0 /\ (proc.state = "ended" \/ strm # "open"))
        ~> (consumer = "got" /\ result # NilErr)

\* the guest never wrote, the process was killed, the consumer got a failure
C3_Witness ==
    /\ writes = 0
    /\ proc.state = "ended"
    /\ proc.signaled
    /\ consumer = "got"
    /\ result # NilErr

\* C4: SwitchBootOrder is called exactly once, before any send of the signal
\* watcher, when the line read matches the marker, and never otherwise; the
\* watcher then sends nil if the call succeeded and the error if it failed.
C4_SwitchOnMarker ==
    /\ switchCalls <= 1
    /\ switchCalls = 1 => line = bootStartedSignal
    /\ (SigPastCheck /\ line = bootStartedSignal) => switchCalls = 1
    /\ pcS \in {"none", "read", "sleep", "check", "send_eof", "send_rderr"}
          => switchCalls = 0
    /\ line = NoLine => switchCalls = 0
    /\ (pcS = "send_ok" /\ line = bootStartedSignal) => switchRes = "ok"
    /\ pcS = "send_swerr" => (switchRes = "fail" /\ line = bootStartedSignal)
    /\ (resultFrom = "sig" /\ line = bootStartedSignal)
          => result = (IF switchRes = "ok" THEN NilErr ELSE ErrSwitch)

\* the marker was read, SwitchBootOrder failed and its failure was received
C4_Witness ==
    /\ line = bootStartedSignal
    /\ switchCalls = 1
    /\ resultFrom = "sig"
    /\ result = ErrSwitch

\* C5: after a complete line that is not the marker the signal watcher
\* sends nil and does not call SwitchBootOrder.
C5_MismatchIsSuccess ==
    (line # NoLine /\ line # bootStartedSignal /\ pcS # "check")
        => /\ pcS \in {"send_ok", "done"}
           /\ switchCalls = 0
           /\ (pcS = "done" => (resultFrom = "sig" /\ result = NilErr))

\* a line other than the marker was read and nil was received
C5_Witness ==
    /\ line # NoLine
    /\ line # bootStartedSignal
    /\ resultFrom = "sig"
    /\ result = NilErr

C7_ProcessFailureWins ==
    [][(result = NoResult /\ result' = ErrEOF) => ~AbnormalExit]_vars

\* C7 (amended): the end-of-stream failure is sent, and so received, only
\* after the grace delay has elapsed.
C7_EOFOnlyAfterGrace ==
    /\ pcS = "send_eof" => slept
    /\ result = ErrEOF => slept
    /\ (slept /\ pcS # "done") => pcS = "send_eof"

\* the end-of-stream failure was received after the delay although the
\* process had ended with an error
C7_Witness ==
    /\ result = ErrEOF
    /\ slept
    /\ AbnormalExit

(***************************************************************************)
(* Properties of the temporary directory and of the machine handle.        *)
(***************************************************************************)
\* the orchestrator owns the directory: a cleanup flag or t.tempdir is armed
OrchestratorOwns == cleanupTempdir \/ tTempdir # ""
\* the machine handle owns the directory
MachineOwns == mach.Tempdir # ""

\* C8: the temporary directory never has two owners, has an owner as long
\* as it exists, and belongs to the machine handle, not to the orchestrator,
\* when the installing function returns the handle.
C8_SingleOwner ==
    /\ ~(OrchestratorOwns /\ MachineOwns)
    /\ dirExists => (OrchestratorOwns \/ MachineOwns)
    /\ pc \in {"run_attach", "run_return", "iso_attach", "iso_return"}
          => (MachineOwns /\ ~OrchestratorOwns)
    /\ ret = "mach" => (mach.Tempdir = TmpName /\ ~OrchestratorOwns)

\* the directory was handed to the handle before the function returned
C8_Witness ==
    /\ pc \in {"run_return", "iso_return"}
    /\ ret = "none"
    /\ dirExists
    /\ MachineOwns
    /\ ~OrchestratorOwns

\* C9: when an installing function has returned an error or panicked, the
\* temporary directory does not exist; when it has returned a handle, the
\* directory exists (until the handle is destroyed) and is the handle's
\* Tempdir.
C9_CleanupOnFailure ==
    /\ ret \in {"err", "panic"} => ~dirExists
    /\ (ret = "mach" /\ removeAlls = 0) => (dirExists /\ mach.Tempdir = TmpName)

\* runPXE failed after setup had created the directory: the deferred
\* destroy closed the builder and the directory is gone
C9_Witness ==
    /\ ret = "err"
    /\ builderCloses = 1
    /\ ~dirExists

\* C10: over any number of Destroy calls on a handle, QemuInstance.Destroy
\* is called exactly once, every call returns nil and the directory is
\* absent afterwards; destroying a handle with no instance and an empty
\* Tempdir returns nil and removes nothing.
C10_DestroyIdempotent ==
    /\ instDestroys <= 1
    /\ (ret = "mach" /\ ~mach.QemuInst)
          => (instDestroys = 1 /\ ~dirExists /\ removeAlls = nDestroy)
    /\ (ret = "mach" /\ mach.QemuInst) => nDestroy = 0
    /\ ret # "mach" => (instDestroys = 0 /\ removeAlls = 0)
    /\ (pc = "done" /\ ret # "mach") => mach = ZeroMachine
    /\ nDestroy > 0 => destroyErr = NilErr

\* the returned handle was destroyed twice
C10_Witness ==
    /\ ret = "mach"
    /\ nDestroy = 2
    /\ removeAlls = 2
    /\ instDestroys = 1
    /\ ~dirExists
    /\ destroyErr = NilErr

(***************************************************************************)
(* Properties of qemu.Cluster.                                             *)
(***************************************************************************)
\* C11: Cluster.Destroy sets tearingDown before it releases any machine, so
\* the supervisor of a machine whose process was ended by that release finds
\* the flag set and logs no abnormal exit.
C11_TeardownNotMisreported ==
    \A m \in Machines :
        qinst[m] = "released" =>
            /\ tearingDown
            /\ sup[m].saw # "false"
            /\ sup[m].logs = 0

C11_Witness ==
    \E m \in Machines :
        /\ qinst[m] = "released"
        /\ sup[m].pc = "done"
        /\ sup[m].waitErr
        /\ sup[m].saw = "true"
        /\ sup[m].logs = 0

\* C12: a call that returns a machine has spawned exactly one supervisor,
\* after AddMach; a call that fails has spawned none; a supervisor logs at
\* most once, and it has logged exactly when Wait returned an error and
\* the read of tearingDown gave false; a clean exit is never logged.
C12_OneSupervisorLogsOnce ==
    \A c \in Machines :
        /\ sup[c].spawned <= 1
        /\ (cret[c] = "mach" => sup[c].spawned = 1)
        /\ (cret[c] \notin {"none", "mach"} => sup[c].spawned = 0)
        /\ (sup[c].spawned = 1 => "registered" \in effects[c])
        /\ sup[c].logs <= 1
        /\ (sup[c].pc # "done" => sup[c].logs = 0)
        /\ (sup[c].pc = "done" =>
                (sup[c].logs = 1 <=> (sup[c].waitErr /\ sup[c].saw = "false")))
        /\ (qinst[c] = "exited" => sup[c].logs = 0)

C12_Witness ==
    \E c \in Machines :
        /\ cret[c] = "mach"
        /\ qinst[c] = "failed"
        /\ sup[c].pc = "done"
        /\ sup[c].logs = 1

\* C13: at most one NewMachine call is inside RenderUserData at any time,
\* and that call holds the mutex.
C13_RenderingSerialized ==
    /\ Cardinality({c \in Machines : cpc[c] = "nm_render"}) <= 1
    /\ \A c \in Machines : cpc[c] = "nm_render" => mu = c

C13_Witness ==
    \E c, d \in Machines :
        /\ cpc[c] = "nm_render"
        /\ cpc[d] = "nm_lock"

\* C14: the mutex is held only by a call that is inside RenderUserData: it
\* is free again after rendering succeeded and after it failed, and is not
\* held while a call launches the instance or polls; a call that waits for
\* the mutex can take it, or else its holder can finish rendering.
C14_MutexGuardsRenderingOnly ==
    /\ mu # "" => cpc[mu] = "nm_render"
    /\ \A c \in Machines :
          cpc[c] = "nm_lock" => ENABLED (NM_Lock(c) \/ \E d \in Machines : NM_Render(d))

\* two launched machines at once, one of them being polled, the mutex free
C14_Witness ==
    \E c, d \in Machines :
        /\ c # d
        /\ cpc[c] = "nm_poll"
        /\ cpc[d] \in {"nm_exec", "nm_poll"}
        /\ tries[c] > 0
        /\ mu = ""

\* C15: util.Retry makes at most RetryAttempts queries of SSHAddress and no
\* query after one that succeeded; the readiness error is returned only
\* after the last attempt failed, and then the machine is neither
\* registered nor supervised.
C15_BoundedPolling ==
    /\ [](\A c \in Machines :
            /\ tries[c] < RetryAttempts
            /\ (cpc[c] = "nm_poll" => "ip" \notin effects[c])
            /\ (cret[c] = "err_ssh" =>
                    /\ "ip" \notin effects[c]
                    /\ "registered" \notin effects[c]
                    /\ c \notin machs
                    /\ sup[c].spawned = 0))
    /\ [][\A c \in Machines :
            (cret[c] = "none" /\ cret'[c] = "err_ssh") => tries[c] = RetryAttempts - 1]_vars

C15_Witness ==
    \E c \in Machines : cret[c] = "err_ssh" /\ qinst[c] # "none"

\* C16: when StartMachine fails the call has destroyed the machine by the
\* time it returns the error, and the machine was never registered and has
\* no supervisor; with SkipStartMachine set, StartMachine is not called.
C16_FailedHandshakeReleases ==
    \A c \in Machines :
        /\ (cret[c] = "err_start" =>
                /\ "start" \in effects[c]
                /\ "destroy" \in effects[c]
                /\ qinst[c] # "running"
                /\ "registered" \notin effects[c]
                /\ c \notin machs
                /\ sup[c].spawned = 0)
        /\ (opts[c].SkipStartMachine => "start" \notin effects[c])

C16_Witness ==
    \E c \in Machines : cret[c] = "err_start" /\ qinst[c] = "destroyed"

\* C17: a call refused for its instance type or for an unparsable primary
\* disk specification has created no working directory, journal or config
\* file and has launched no VM.
C17_NoPartialResources ==
    \A c \in Machines :
        cret[c] \in {"err_insttype", "err_disk"} =>
            /\ effects[c] \cap {"dir", "journal", "config"} = {}
            /\ qinst[c] = "none"

(***************************************************************************)
(* Properties of the preconditions of Install.PXE and InstallViaISOEmbed.  *)
(***************************************************************************)
\* an artifact is missing: from the build metadata, or from disk
Missing(states) == \E i \in DOMAIN states : states[i] \in {"nometa", "nofile"}

\* the errors checkArtifactsExist has for missing artifacts
MissingErrors(names) ==
    {ErrMissingArtifact(names[i]) : i \in DOMAIN names}
        \cup {ErrMissingFile(names[i]) : i \in DOMAIN names}

\* C18: Install.PXE returns the missing-artifact error whenever live-kernel
\* or live-rootfs is missing from the metadata or from disk, and when it has
\* returned that error no temporary directory exists and neither the live
\* config nor the Install object was modified.
C18_PxeFailsBeforeTempdir ==
    /\ [](precondErr \in MissingErrors(PxeArtifacts) =>
            /\ pc = "done"
            /\ ret = "err"
            /\ ~dirExists
            /\ ~instSet
            /\ proc = NotStarted)
    /\ [][(pc = "pxe_check" /\ Missing(req.art) /\ pc' # pc) =>
            precondErr' \in MissingErrors(PxeArtifacts)]_vars

C18_Witness ==
    /\ pc = "done"
    /\ ret = "err"
    /\ precondErr = ErrMissingFile("live-rootfs")
    /\ ~dirExists

\* InstallViaISOEmbed was called with minimal = true and offline = true
MinimalOffline == req.method = "iso" /\ req.minimal /\ req.offline

\* C19: a call of InstallViaISOEmbed with minimal and offline set gets no
\* further than the check of the two modes: it ends there or at the check
\* of the artifacts, with an error or a panic, and no temporary directory
\* was created and no VM launched; the statements that write to the
\* output directory and that start the HTTP server are never reached.
C19_MinimalOfflineFailsFast ==
    /\ [](MinimalOffline =>
            /\ pc \in {"iso_check", "iso_minoff"}
            /\ ret = "none"
            /\ ~dirExists
            /\ ~instSet
            /\ proc = NotStarted)
    /\ [][(MinimalOffline /\ pc' # pc) =>
            /\ pc' \in {"iso_minoff", "done"}
            /\ (pc' = "done" => ret' \in {"err", "panic"})
            /\ ~dirExists'
            /\ proc' = NotStarted]_vars

C19_Witness ==
    /\ pc = "done"
    /\ ret = "panic"
    /\ ~dirExists
    /\ proc = NotStarted

\* InstallViaISOEmbed was called with offline = true and keyfiles
OfflineKeyfiles == req.method = "iso" /\ req.offline /\ req.keyfiles

\* C20 as stated: a call of InstallViaISOEmbed with offline set and
\* keyfiles present that has its artifacts always ends with the usage
\* error, returned and not a panic.
C20_AlwaysUsageError ==
    [][(OfflineKeyfiles /\ pc # "iso_check" /\ pc' = "done") =>
            (ret' = "err" /\ precondErr' = ErrKeyfileOffline)]_vars

\* C20, amended: such a call always ends before the temporary directory is
\* created and the ISO copied; it returns the usage error exactly when its
\* artifacts are there and minimal is not set; with minimal set it panics,
\* and with an artifact missing it returns the error of that artifact.
C20_UsageErrorUnlessMinimal ==
    /\ [](OfflineKeyfiles =>
            /\ pc \in {"iso_check", "iso_minoff", "iso_offkey"}
            /\ ~dirExists
            /\ ~instSet
            /\ proc = NotStarted)
    /\ [][(OfflineKeyfiles /\ pc' # pc) =>
            /\ ~dirExists'
            /\ (pc = "iso_check" /\ pc' = "done" =>
                    ret' = "err" /\ precondErr' \in MissingErrors(IsoArtifacts))
            /\ (pc = "iso_minoff" /\ pc' = "done" => req.minimal /\ ret' = "panic")
            /\ (pc = "iso_minoff" /\ req.minimal => pc' = "done")
            /\ (pc = "iso_offkey" =>
                    /\ ~req.minimal
                    /\ pc' = "done"
                    /\ ret' = "err"
                    /\ precondErr' = ErrKeyfileOffline)]_vars

C20_Witness ==
    /\ pc = "done"
    /\ ret = "err"
    /\ precondErr = ErrKeyfileOffline
    /\ ~dirExists

(***************************************************************************)
(* C21: Install.PXE and Install.InstallViaISOEmbed return the handle       *)
(* without waiting on either watcher.  When the call returns the handle,   *)
(* its BootStartedErrorChannel has been made and nothing has been received *)
(* from it; the return statement is enabled whatever the watchers are      *)
(* doing; a result is obtained only by a receive on the channel from a     *)
(* watcher blocked in its send; and once the handle has been returned, no  *)
(* later exit of the process or failure of the signal changes what the     *)
(* call returned.                                                          *)
(***************************************************************************)
C21_HandleReturnedWithoutWaiting ==
    /\ [](ret = "mach" => chanMade)
    /\ [](pc \in {"run_return", "iso_return"} => ENABLED (runPXE_Return \/ ISO_Return))
    /\ [][ret' # ret => /\ consumer' = "idle"
                        /\ result' = NoResult
                        /\ resultFrom' = "none"]_vars
    /\ [][result' # result => /\ consumer = "waiting"
                              /\ sendq # <<>>
                              /\ ret = "mach"]_vars
    /\ [][ret # "none" => ret' = ret]_vars

\* the handle was returned while both watchers were still waiting, the
\* process then failed, and the failure reached the consumer through the
\* channel
C21_Witness ==
    /\ ret = "mach"
    /\ proc.state = "ended"
    /\ proc.waitErr
    /\ result = ErrQemuExited
    /\ pcS = "read"

(***************************************************************************)
(* C22: every return of runPXE (failure of setup, of the opening of the    *)
(* signal channel, of the completion of the boot configuration, of the     *)
(* launch, or success) is preceded by a call of the builder's Close.       *)
(***************************************************************************)
RunPxeStatements ==
    { PxeOrder[i] : i \in IndexOf(PxeOrder, "setup_check")..Len(PxeOrder) }

C22_ClosedOnEveryReturn ==
    [][(pc \in RunPxeStatements /\ pc' = "done") => (builderCloses' = builderCloses + 1)]_vars

(***************************************************************************)
(* Properties of the boot disk.                                            *)
(***************************************************************************)
\* the disk options.PrimaryDisk describes
RequestedDisk == ParseDisk(dopts.PrimaryDisk, TRUE).disk

\* the values the per-machine request sets explicitly, per attribute
ReqChannel ==
    (IF dopts.Nvme THEN {ChanNvme} ELSE {})
        \cup (IF RequestedDisk.Channel # <<>> THEN {RequestedDisk.Channel} ELSE {})
ReqSectorSize == IF RequestedDisk.SectorSize # 0 THEN {RequestedDisk.SectorSize} ELSE {}
ReqMultiPath ==
    IF dopts.MultiPathDisk \/ RequestedDisk.MultiPathDisk THEN {TRUE} ELSE {}
ReqSize ==
    (IF dopts.MinDiskSize > 0 THEN {SprintfG(dopts.MinDiskSize)} ELSE {})
        \cup (IF RequestedDisk.Size # <<>> THEN {RequestedDisk.Size} ELSE {})

\* the values the flight's options set, per attribute
GlobChannel == IF fopts.Nvme THEN {ChanNvme} ELSE {}
GlobSectorSize == IF fopts.Native4k \/ fopts.Disk512e THEN {4096} ELSE {}
GlobMultiPath == IF fopts.MultiPathDisk THEN {TRUE} ELSE {}
GlobSize == IF fopts.DiskSize # <<>> THEN {fopts.DiskSize} ELSE {}

\* the value is the request's if the request set one, else the flight's if
\* the flight set one, else the default
Layered(value, requested, global, default) ==
    IF requested # {} THEN value \in requested
    ELSE IF global # {} THEN value \in global
    ELSE value = default

(***************************************************************************)
(* C23: when the boot disk is handed to AddBootDisk, each of its           *)
(* attributes (channel, sector size, multipath, size) is the value of the  *)
(* per-machine request if the request set one, else the value of the       *)
(* flight's option if there is one, else the default; a flight option      *)
(* never replaces a value the request set.                                 *)
(***************************************************************************)
C23_RequestOverGlobalOverDefault ==
    dpc = "bd_add" =>
        /\ Layered(primaryDisk.Channel, ReqChannel, GlobChannel, ZeroDisk.Channel)
        /\ Layered(primaryDisk.SectorSize, ReqSectorSize, GlobSectorSize,
                   ZeroDisk.SectorSize)
        /\ Layered(primaryDisk.MultiPathDisk, ReqMultiPath, GlobMultiPath,
                   ZeroDisk.MultiPathDisk)
        /\ Layered(primaryDisk.Size, ReqSize, GlobSize, ZeroDisk.Size)

(***************************************************************************)
(* Properties of the rendering.                                            *)
(***************************************************************************)
\* the PXE call has rendered its command line and is about to launch
PxeRendered == kpc = "k_return" /\ krun.method = "pxe"

\* the ISO call has rendered everything and is about to launch
IsoRendered == kpc = "k_return" /\ krun.method = "iso"

\* the base URL of the PXE run, in pieces
PxeUrl == << "http://", krun.pxe.tftpipaddr, ":" >> \o Itoa(krun.port)

\* the arguments that precede the installer's in the PXE command line: the
\* base arguments, the console, the debug arguments when enabled, the
\* caller's arguments, the URL of the live configuration
PxeLeading ==
    baseKargs
        \o << << "console=", consoleKernelArgument(env.arch) >> >>
        \o (IF env.debug THEN DebugKargs ELSE <<>>)
        \o Elems(heap, krun.kargs)
        \o << << "ignition.config.url=" >> \o PxeUrl \o << "/pxe-live.ign" >> >>

\* the arguments that follow the install device and the URL of the target
\* configuration: the image URL, the insecure flag, the URL of the rootfs
PxeTrailing ==
    (IF ~krun.offline
     THEN << << "coreos.inst.image_url=" >> \o PxeUrl \o << "/", MetalName >> >> ELSE <<>>)
        \o (IF inst.Insecure THEN << << "coreos.inst.insecure" >> >> ELSE <<>>)
        \o (IF ~inst.PxeAppendRootfs
            THEN << << "coreos.live.rootfs_url=" >> \o PxeUrl \o << "/", RootfsName >> >>
            ELSE <<>>)

(***************************************************************************)
(* C24 as stated: the PXE kernel command line is the concatenation of the  *)
(* base arguments, the console, the caller's arguments (after the debug    *)
(* arguments when enabled), the URL of the live configuration, the install *)
(* device, the image URL iff not offline, the insecure flag iff set, and   *)
(* the URL of the rootfs iff it is not appended to the initramfs.          *)
(***************************************************************************)
C24_CmdlineAsListed ==
    PxeRendered =>
        kout.cmdline =
            Join(PxeLeading \o << << "coreos.inst.install_dev=/dev/vda" >> >> \o PxeTrailing,
                 " ")

(***************************************************************************)
(* C24 amended: the command line is that concatenation with, between the   *)
(* install device and the image URL, the URL of the target configuration   *)
(* (coreos.inst.ignition_url=<base URL>/config.ign), which is always       *)
(* present.                                                                *)
(***************************************************************************)
C24_CmdlineWithTargetConfigUrl ==
    PxeRendered =>
        kout.cmdline =
            Join(PxeLeading
                     \o << << "coreos.inst.install_dev=/dev/vda" >>,
                           << "coreos.inst.ignition_url=" >> \o PxeUrl \o << "/config.ign" >> >>
                     \o PxeTrailing,
                 " ")

\* a PXE run that is not offline, insecure, with the rootfs served, the
\* debug arguments and arguments of the caller
C24_Witness ==
    /\ PxeRendered
    /\ ~krun.offline
    /\ inst.Insecure
    /\ ~inst.PxeAppendRootfs
    /\ env.debug
    /\ krun.kargs.len = 2
    /\ Len(kout.cmdline) > Len(baseKargs)

\* an install call is in progress
Rendering == kpc \notin {"none", "idle"}

\* the supported architectures
SupportedArchs == {"x86_64", "aarch64", "ppc64le", "s390x"}

(***************************************************************************)
(* C25: the rendering of the kernel arguments is deterministic and leaves  *)
(* its inputs alone.  Two runs on the same Install object that returned    *)
(* the handle and had the same inputs (method, caller's arguments, mode    *)
(* flags, base URL; the flags of the object and the environment are the    *)
(* same) rendered the same command line, the same arguments for the ISO    *)
(* and the same files; the array of baseKargs always holds the base        *)
(* arguments; no step of a run changes the array of the caller's slice;    *)
(* and inst.kargs shares its array neither with baseKargs nor with the     *)
(* caller's slice.                                                         *)
(***************************************************************************)
C25_RenderingDeterministic ==
    /\ [](\A i, j \in DOMAIN runs :
             (runs[i].in = runs[j].in /\ runs[i].ret = "mach" /\ runs[j].ret = "mach")
                 => runs[i].out = runs[j].out)
    /\ [](heap[BaseSlice.arr] = baseKargs)
    /\ [](inst.kargs.arr # BaseSlice.arr)
    /\ []((Rendering /\ krun.kargs.arr # 0) => inst.kargs.arr # krun.kargs.arr)
    /\ [][(Rendering /\ kpc' # "idle" /\ krun.kargs.arr # 0)
             => (krun'.kargs = krun.kargs /\ heap'[krun.kargs.arr] = heap[krun.kargs.arr])]_vars

\* two runs with the same inputs returned the handle, with arguments of the
\* caller and (for one object at least) the debug arguments
C25_Witness ==
    /\ Len(runs) = 2
    /\ runs[1].in = runs[2].in
    /\ runs[1].ret = "mach"
    /\ runs[2].ret = "mach"
    /\ Len(runs[1].in.kargs) = 2
    /\ env.debug
    /\ inst.NmKeyfiles

(***************************************************************************)
(* C26: the resolution of the boot parameters.  On a supported             *)
(* architecture (x86_64, aarch64, ppc64le, s390x), with any firmware, a    *)
(* setup that gets past the resolution has a network device that is not    *)
(* empty and a boot mechanism that is pxe or grub; on x86_64 with UEFI the *)
(* mechanism is grub, the boot priority 2 and the network device e1000.    *)
(* On any other architecture setup fails: the PXE call returns an error    *)
(* and renders nothing.                                                    *)
(***************************************************************************)
C26_BootParameters ==
    /\ []((krun.method = "pxe" /\ kpc \in {"k_runpxe", "k_return"}) =>
             /\ env.arch \in SupportedArchs
             /\ krun.pxe.networkdevice # ""
             /\ krun.pxe.boottype \in {"pxe", "grub"}
             /\ (env.arch = "x86_64" /\ inst.Firmware = "uefi") =>
                    /\ krun.pxe.boottype = "grub"
                    /\ krun.pxe.bootindex = "2"
                    /\ krun.pxe.networkdevice = "e1000")
    /\ [][(kpc = "k_setup" /\ env.arch \notin SupportedArchs)
             => (kpc' = "idle" /\ kret' = "err")]_vars

\* setup resolved the parameters of x86_64 with UEFI
C26_Witness ==
    /\ kpc = "k_runpxe"
    /\ env.arch = "x86_64"
    /\ inst.Firmware = "uefi"
    /\ krun.pxe.boottype = "grub"

\* the contents of the file liveIgnition holds at a path, <<>> if none
LiveFile(path) ==
    IF \E i \in DOMAIN kout.liveFiles : kout.liveFiles[i].path = path
    THEN kout.liveFiles[CHOOSE i \in DOMAIN kout.liveFiles : kout.liveFiles[i].path = path]
             .contents
    ELSE <<>>

\* the installer's configuration as written to liveIgnition
Directive == LiveFile(<< MantleYaml >>)

\* the entry of a key in a marshalled configuration, <<>> if left out
YamlValue(yaml, key) ==
    IF \E i \in DOMAIN yaml : yaml[i][1] = key
    THEN yaml[CHOOSE i \in DOMAIN yaml : yaml[i][1] = key][2]
    ELSE <<>>

(***************************************************************************)
(* C27: an ISO install with offline=true (and minimal=false) embeds the    *)
(* serialized target configuration itself at /var/opt/pointer.ign, writes  *)
(* no pointer configuration, starts no HTTP server, puts no image URL in   *)
(* the installer's configuration and does not turn usermode networking on; *)
(* with offline=false a server is started, usermode networking is turned   *)
(* on, and the payload is a configuration that merges the served           *)
(* target.ign.                                                             *)
(***************************************************************************)
C27_OfflineEmbedsVerbatim ==
    IsoRendered =>
        IF krun.offline
        THEN /\ ~krun.minimal
             /\ LiveFile(PointerIgn) = << "{", <<>>, TargetConf.body, "}" >>
             /\ "config-target-pointer.ign" \notin kout.outFiles
             /\ ~kout.served
             /\ krun.installerConfig.ImageURL = <<>>
             /\ YamlValue(Directive, "image-url") = <<>>
             /\ ~kout.UsermodeNetworking
        ELSE /\ kout.served
             /\ kout.UsermodeNetworking
             /\ LiveFile(PointerIgn) =
                    << "{",
                       << << "http://", defaultQemuHostIPv4, ":" >> \o Itoa(krun.port)
                              \o << "/target.ign" >> >>,
                       <<>>, "}" >>
             /\ "config-target-pointer.ign" \in kout.outFiles

\* an offline ISO install is about to launch
C27_Witness ==
    /\ IsoRendered
    /\ krun.offline
    /\ ~krun.minimal
    /\ LiveFile(PointerIgn) # <<>>

(***************************************************************************)
(* C28: in an ISO install the installer writes to /dev/mapper/mpatha iff   *)
(* multipath is requested and to /dev/vda otherwise; with multipath the    *)
(* kernel arguments it appends include rd.multipath=default,               *)
(* root=/dev/disk/by-label/dm-mpath-root and rw, and without it they       *)
(* include none of the three.                                              *)
(***************************************************************************)
C28_MultipathDestination ==
    IsoRendered =>
        LET dest == YamlValue(Directive, "dest-device")
            appended == YamlValue(Directive, "append-karg")
            has(k) == \E i \in DOMAIN appended : appended[i] = k
        IN  /\ dest = krun.installerConfig.DestDevice
            /\ inst.MultiPathDisk => dest = << "/dev/mapper/mpatha" >>
            /\ ~inst.MultiPathDisk => dest = << "/dev/vda" >>
            /\ \A k \in { << "rd.multipath=default" >>,
                          << "root=/dev/disk/by-label/dm-mpath-root" >>, << "rw" >> } :
                 has(k) <=> inst.MultiPathDisk

\* an ISO install with multipath is about to launch
C28_Witness ==
    /\ IsoRendered
    /\ inst.MultiPathDisk
    /\ YamlValue(Directive, "dest-device") # <<>>

\* whether the sequence sub occurs in s, as consecutive elements
Occurs(sub, s) ==
    \E i \in 0..(Len(s) - Len(sub)) : SubSeq(s, i + 1, i + Len(sub)) = sub

\* the four verbose-logging arguments
VerboseKargs ==
    << << "systemd.log_color=0" >>, << "systemd.log_level=debug" >>,
       << "systemd.journald.forward_to_console=1" >>,
       << "systemd.journald.max_level_console=debug" >> >>

\* whether a list of arguments holds the four, in a row; whether it holds
\* one of them
HasVerbose(args) == Occurs(VerboseKargs, args)
HasSomeVerbose(args) == \E i \in DOMAIN args, j \in DOMAIN VerboseKargs : args[i] = VerboseKargs[j]

(***************************************************************************)
(* C29: with COSA_TESTISO_DEBUG set, every rendering of kernel arguments   *)
(* holds the four verbose-logging arguments: the PXE command line and the  *)
(* append list of the configuration PXE adds to liveIgnition, the          *)
(* arguments appended to the ISO, and the append list of the installer's   *)
(* configuration of the ISO install.  Without it, none of the four is in   *)
(* any of them (the callers of the model pass none).                       *)
(***************************************************************************)
C29_DebugKargsEverywhere ==
    /\ PxeRendered =>
          /\ env.debug <=> Occurs(Join(VerboseKargs, " "), kout.cmdline)
          /\ \A j \in DOMAIN VerboseKargs : env.debug \/ ~Occurs(VerboseKargs[j], kout.cmdline)
          /\ Directive # <<>> =>
                /\ env.debug <=> HasVerbose(YamlValue(Directive, "append-karg"))
                /\ env.debug \/ ~HasSomeVerbose(YamlValue(Directive, "append-karg"))
    /\ IsoRendered =>
          /\ env.debug <=> HasVerbose(kout.isoKargs)
          /\ env.debug \/ ~HasSomeVerbose(kout.isoKargs)
          /\ env.debug <=> HasVerbose(YamlValue(Directive, "append-karg"))
          /\ env.debug \/ ~HasSomeVerbose(YamlValue(Directive, "append-karg"))

\* an ISO install rendered with the toggle set, after a first run on the
\* same object
C29_Witness ==
    /\ IsoRendered
    /\ env.debug
    /\ Len(runs) = 1
    /\ HasVerbose(kout.isoKargs)

(***************************************************************************)
(* Properties of RunCmdTimeout.                                            *)
(***************************************************************************)
\* RunCmdTimeout has returned
CmdReturned == tpc = "idle" /\ tret # "none"

\* the command completed before the timeout had elapsed
CompletedInTime == cproc \in ExitStates /\ inTime

(***************************************************************************)
(* C30: RunCmdTimeout returns an error whenever the command has not        *)
(* completed before the timeout elapsed, and returns nil only when the     *)
(* command completed successfully before the timeout, whatever the order   *)
(* of the command's completion, the timer's expiry and the statements of   *)
(* the call.                                                               *)
(***************************************************************************)
C30_NilOnlyWithinTimeout ==
    CmdReturned =>
        /\ ~CompletedInTime => tret # NilErr
        /\ tret = NilErr => (cproc = "ok" /\ inTime)

(***************************************************************************)
(* Properties settled last.                                                *)
(***************************************************************************)
\* a watcher is blocked in a send on BootStartedErrorChannel
BlockedInSend == pcP = "send" \/ pcS \in SigSendStates

(***************************************************************************)
(* C31: after the consumer has read one result from the channel, both      *)
(* watchers eventually terminate: neither stays blocked forever in its     *)
(* send, also when the machine is destroyed after the signal watcher has   *)
(* reported, and when both watchers detect a failure.                      *)
(***************************************************************************)
C31_NoWatcherBlockedForever ==
    (consumer = "got") ~> (consumer = "got" /\ ~BlockedInSend)

(***************************************************************************)
(* C32: whenever NewMachine returns an error after builder.Exec launched   *)
(* the instance (the polling of the SSH address is exhausted, or           *)
(* StartMachine failed), the instance has been destroyed before the        *)
(* return: no running process is left without an owner.                    *)
(***************************************************************************)
C32_LaunchedInstanceDestroyedOnError ==
    \A c \in Machines :
        cret[c] \in {"err_ssh", "err_start"} =>
            /\ "destroy" \in effects[c]
            /\ qinst[c] # "running"

(***************************************************************************)
(* C33: a genuine abnormal exit is never suppressed.  If the process of a  *)
(* machine has ended by itself with an error before Cluster.Destroy is     *)
(* called, then its supervisor, once it is done, has logged the exit,      *)
(* however the supervisor and the later Cluster.Destroy interleave.  The  *)
(* machines considered are the ones NewMachine returned, whose supervisor  *)
(* runs.                                                                   *)
(***************************************************************************)
C33_AbnormalExitLogged ==
    \A c \in earlyExit :
        (cret[c] = "mach" /\ sup[c].pc = "done") => sup[c].logs = 1

\* s is m with white space before it and after it, and nothing else
Surrounded(s, m) ==
    \E i \in 0..(Len(s) - Len(m)) :
        /\ SubSeq(s, i + 1, i + Len(m)) = m
        /\ \A j \in 1..i : s[j] \in WhiteSpace
        /\ \A j \in (i + Len(m) + 1)..Len(s) : s[j] \in WhiteSpace

C35_AlwaysPanics ==
    [][(MinimalOffline /\ pc' = "done") => ret' = "panic"]_vars

(***************************************************************************)
(* C35 amended: such a call always ends at its precondition checks; it     *)
(* panics, whatever the keyfiles, when every artifact is listed in the     *)
(* metadata and no file is found missing, and it returns the error of the  *)
(* missing artifact otherwise.                                             *)
(***************************************************************************)
C35_PanicsUnlessArtifactMissing ==
    /\ [](MinimalOffline => pc \in {"iso_check", "iso_minoff"})
    /\ [][(MinimalOffline /\ pc' = "done") =>
            IF Missing(req.art)
            THEN /\ pc = "iso_check"
                 /\ ret' = "err"
                 /\ precondErr' \in MissingErrors(IsoArtifacts)
            ELSE /\ pc = "iso_minoff"
                 /\ ret' = "panic"
                 /\ precondErr' = <<>>]_vars

\* the call has panicked: no error value was returned and the Install
\* object was not touched
C35_Witness ==
    /\ pc = "done"
    /\ ret = "panic"
    /\ precondErr = <<>>
    /\ ~instSet
    /\ req = NoReq

\* the marker arrived without a newline, the stream was closed, and
\* ReadString returned the marker with io.EOF
MarkerThenEOF == rawLine = bootStartedSignal /\ line = NoLine /\ strm = "closed"

(***************************************************************************)
(* C36: if the marker arrives on the stream without a terminating newline  *)
(* and the stream is then closed, the signal watcher treats it as the end  *)
(* of the stream: it sleeps, then sends the failure saying the signal      *)
(* never arrived, and it does not call SwitchBootOrder.                    *)
(***************************************************************************)
C36_UnterminatedMarkerIsEOF ==
    /\ [][(pcS = "read" /\ pcS' # "read" /\ buf = bootStartedSignal /\ strm = "closed")
             => (pcS' = "sleep" /\ rawLine' = buf /\ line' = NoLine)]_vars
    /\ [](MarkerThenEOF =>
             /\ pcS \in {"sleep", "send_eof", "done"}
             /\ switchCalls = 0
             /\ sends["sig"] = (IF pcS = "sleep" THEN 0 ELSE 1)
             /\ pcS # "sleep" => slept
             /\ pcS = "done" => (resultFrom = "sig" /\ result = ErrEOF))

\* the unterminated marker was read and the consumer received the failure
C36_Witness ==
    /\ MarkerThenEOF
    /\ pcS = "done"
    /\ slept
    /\ result = ErrEOF
    /\ switchCalls = 0

\* the position of a tool in the order the claim gives
ToolRank(name) ==
    CASE name = "cp" -> 1
      [] name = "chmod" -> 2
      [] name = "extract-minimal" -> 3
      [] name = "network-embed" -> 4
      [] name = "kargs-modify" -> 5

\* the tools that have run so far in the ISO install
ToolsRun == {kout.tools[i].name : i \in DOMAIN kout.tools}

(***************************************************************************)
(* C37: in an ISO install the live ISO of the build directory is never     *)
(* written or modified by a tool (it is only the source of the copy);      *)
(* the extraction of the minimal ISO, the embedding of the keyfiles and    *)
(* the appending of the kernel arguments work on files of the temporary    *)
(* directory, in that order; and the ISO attached to the VM is the file    *)
(* that received the keyfiles and the kernel arguments: the minimal ISO    *)
(* when minimal, the working copy otherwise.                               *)
(***************************************************************************)
C37_OriginalIsoUntouched ==
    /\ \A i \in DOMAIN kout.tools :
          /\ kout.tools[i].writes \in {NewIso, MinIso}
          /\ kout.tools[i].name # "cp" => kout.tools[i].reads \in {NewIso, MinIso}
          /\ \A j \in DOMAIN kout.tools :
                i < j => ToolRank(kout.tools[i].name) < ToolRank(kout.tools[j].name)
    /\ IsoRendered =>
          /\ kout.attached = (IF krun.minimal THEN MinIso ELSE NewIso)
          /\ "extract-minimal" \in ToolsRun <=> krun.minimal
          /\ "network-embed" \in ToolsRun <=> inst.NmKeyfiles
          /\ "kargs-modify" \in ToolsRun <=> kout.isoKargs # <<>>
          /\ \A i \in DOMAIN kout.tools :
                kout.tools[i].name \in {"network-embed", "kargs-modify"}
                    => kout.tools[i].writes = kout.attached

\* a minimal install with keyfiles is about to launch: the three tools ran
C37_Witness ==
    /\ IsoRendered
    /\ krun.minimal
    /\ {"extract-minimal", "network-embed", "kargs-modify"} \subseteq ToolsRun
    /\ kout.attached = MinIso

\* os.Stat succeeded on the file of every artifact, each listed in the
\* metadata of the build
AllStatted(states) == \A i \in DOMAIN states : states[i] = "ok"

(***************************************************************************)
(* C38: checkArtifactsExist returns nil only if every named artifact is    *)
(* listed in the build metadata and os.Stat succeeded on its file: when    *)
(* Install.PXE or InstallViaISOEmbed goes on past its check, no artifact   *)
(* is missing and no os.Stat failed, for whatever reason.                  *)
(***************************************************************************)
C38_NilOnlyIfAllStatted ==
    [][(pc \in {"pxe_check", "iso_check"} /\ pc' \notin {pc, "done"})
            => AllStatted(req.art)]_vars

\* the PXE installs that launched their VM
PxeLaunches == {i \in DOMAIN runs : runs[i].in.method = "pxe" /\ runs[i].ret = "mach"}

(***************************************************************************)
(* C39: on every supported architecture and firmware, when the PXE VM is   *)
(* launched the boot mechanism is pxe or grub (completePxeSetup never      *)
(* reaches its panic on an unhandled boot type), and the boot file named   *)
(* to the network backend is not empty; for the mechanism pxe it is        *)
(* "/pxelinux.0", and it is set only once the configuration of the boot    *)
(* loader and its image are written under the TFTP directory.              *)
(***************************************************************************)
C39_BootFileResolved ==
    /\ kpc \in {"k_pxeconfig", "k_pxeimage"} => krun.pxe.boottype \in {"pxe", "grub"}
    /\ PxeRendered =>
          /\ krun.pxe.boottype \in {"pxe", "grub"}
          /\ krun.pxe.bootfile # ""
          /\ krun.pxe.boottype = "pxe" => krun.pxe.bootfile = PxeLinux0
    /\ (krun.pxe.boottype = "pxe" /\ krun.pxe.bootfile # "") =>
          {"pxelinux.cfg/default", "pxelinux.0"} \subseteq kout.tftp
    /\ \A i \in PxeLaunches :
          /\ runs[i].out.bootfile # ""
          /\ "boot/grub2/grub.cfg" \notin runs[i].out.tftp
                => runs[i].out.bootfile = PxeLinux0

\* an s390x host launched its PXE install: the image was made by
\* mk-s390image and the boot file is the one of pxelinux
C39_Witness ==
    /\ env.arch = "s390x"
    /\ PxeLaunches # {}
    /\ \A i \in PxeLaunches :
          /\ runs[i].out.bootfile = PxeLinux0
          /\ runs[i].out.tftp = {"pxelinux.cfg/default", "pxelinux.0"}

====
